---- MODULE Spec2Model ----
(***************************************************************************)
(* Model of the Trade Me acquisition pipeline of property_recommender.     *)
(*                                                                         *)
(* Part 1: data_gathering/features/fetch_executor/fetch_executor.py        *)
(*   fetch_raw_properties: the paginated search loop with its per-page     *)
(*   retry loop, the max_records trim and the detail phase, and            *)
(*   fetch_listing_details: the per-listing retry recursion.               *)
(*                                                                         *)
(* One step of the model is one HTTP request together with the code that   *)
(* handles its outcome, or one block of straight-line code between two     *)
(* requests.  The remote server is the environment: every request can end  *)
(* in any status code of Statuses or in an exception raised by session.get.*)
(***************************************************************************)
EXTENDS Integers, Sequences, FiniteSets, TLC

(***************************************************************************)
(* Bounds of the model                                                     *)
(***************************************************************************)
\* largest page number for which the model still issues requests
MaxPage == 2
\* number of requests the model follows on one search page
ReqCap == 4
\* largest len(List) of one search response
MaxItems == 2
\* largest value of the max_pages / max_records arguments
MaxCapArg == 2
\* honest server: largest collection it holds and largest page size it serves
MaxServerTotal == 5
MaxServerPageSize == 2
\* longest name of a taxonomy item and longest text of a form field
MaxNameLen == 3
\* largest number of districts of a taxonomy (over all its regions)
MaxDistricts == 2
\* largest value of the --retries argument of the orchestrator
MaxAttempts == 2
MaxFormKeys == 1
MaxRetryLimit == 2
MaxRecords == 3
MaxStarts == 3

(***************************************************************************)
(* Values                                                                  *)
(***************************************************************************)
\* max_pages=None / max_records=None; `if max_pages and ...` treats None and 0 alike
NoCap == 0
\* status recorded in the attempt log when session.get raised and there is no response
NoResponse == 0
\* an item of List without a (truthy) ListingId
NoListingId == 0

\* the status codes the server answers with: success, a 4xx other than 429,
\* rate limiting, a server error
Statuses == {200, 404, 429, 503}

\* the TotalCount and PageSize fields an arbitrary server may report
TotalCounts == 0 .. (2 * MaxItems)
PageSizes == 1 .. MaxItems

\* the ListingId of the i-th item of search page p when pages hold up to n items
\* (ids are distinct across pages)
ItemId(p, i, n) == (p - 1) * n + i

\* the List arrays a search response for page p may carry: up to MaxItems items;
\* the items carry their ListingId, except that the last one may lack it
IdItems(p, k) == [i \in 1 .. k |-> ItemId(p, i, MaxItems)]
ItemLists(p) ==
    { IdItems(p, k) : k \in 0 .. MaxItems } \cup
    { Append(IdItems(p, k), NoListingId) : k \in 0 .. (MaxItems - 1) }

\* JSON body of a search response
Body(list, total, size) == [List |-> list, TotalCount |-> total, PageSize |-> size]
\* body of a response that is never parsed (error statuses)
ErrBody == Body(<< >>, 0, 0)
SearchBodies(p) ==
    { Body(l, t, s) : l \in ItemLists(p), t \in TotalCounts, s \in PageSizes }

NoResponseYet == [status_code |-> NoResponse, body |-> ErrBody]


(***************************************************************************)
(* State                                                                   *)
(***************************************************************************)
VARIABLES
    pc,                \* where fetch_raw_properties stands: "search" (in the retry loop
                       \* of a page), "got_page" (left the retry loop by break),
                       \* "collected" (left the page loop), "details" (in the detail
                       \* loop), "done" (returned), "failed" (FetchError raised)
    max_pages,         \* argument max_pages (NoCap when unset)
    max_records,       \* argument max_records (NoCap when unset)
    page,              \* local page
    retries,           \* local retries of the page in progress
    response,          \* local response: the last response session.get returned
    all_listing_ids,   \* local all_listing_ids
    items_fetched,     \* history: sum of len(items) over the successful pages
    page_log,          \* history: status and sleep of every request of the page in progress
    detail_idx,        \* position of the detail loop in all_listing_ids (1-based)
    detail_retries,    \* parameter retries of the fetch_listing_details call in progress
    detail_log,        \* history: status and sleep of every request of the listing in progress
    details,           \* local details: what fetch_listing_details returned
    complete_listings, \* local complete_listings
    detail_requested,  \* history: the listing ids for which a detail request was issued
    detail_failed,     \* history: the listing ids whose fetch_listing_details call gave
                       \* up (returned None) or returned an empty object
    server             \* environment: the kind of server this run talks to

\* one call of fuzzy_match_item (query_builder.py)
VARIABLES
    fm_pc,             \* "call" before the call, "returned" after it, "idle" when unused
    fm_name,           \* argument name
    fm_items,          \* argument items: the Name of every item, in list order
    fm_result          \* the position in items of the item returned; NoItem for None

fetchVars == << pc, max_pages, max_records, page, retries, response,
                all_listing_ids, items_fetched, page_log, detail_idx, detail_retries,
                detail_log, details,
                complete_listings, detail_requested, detail_failed, server >>
matchVars == << fm_pc, fm_name, fm_items, fm_result >>

\* one call of build_params_from_form (query_builder.py)
VARIABLES
    b_pc,              \* "call" before the call, "returned" after it, "idle" when unused
    regions,           \* what get_regions() returns: the location taxonomy
    form,              \* argument form: the fields region, district and suburb
    params,            \* the params returned
    match_hints        \* the match_hints returned

buildVars == << b_pc, regions, form, params, match_hints >>

\* main of data_gathering/orchestrator.py from the confirmation loop on; it
\* shares regions, form, params and match_hints with the build
VARIABLES
    o_pc,              \* "confirm" (at the call of confirm_location_mapping),
                       \* "fetch" (after the loop), "done" (fetched), "saved"
                       \* (raw listings written), "matched" (match_properties
                       \* called on them), "aborted" (main left by an uncaught
                       \* exception), "idle" when unused
    retries_arg,       \* args.retries
    attempt,           \* loop variable attempt
    conf_log,          \* history: per call of confirm_location_mapping its argument,
                       \* the request it sent and how it ended
    builds,            \* history: number of build_search_query calls
    fetch_call         \* history: the params fetch_raw_properties was called with

confirmVars == << o_pc, retries_arg, attempt, conf_log, builds, fetch_call >>

\* build_params_from_form on a form with numeric ranges and categorical
\* filters; it shares b_pc, regions, form, params and match_hints with the build
VARIABLES
    valid_types,       \* what get_property_types() returns: the Key of every item
    valid_methods,     \* what get_sales_methods() returns: the Key of every item
    b_raised,          \* the call raised ValueError
    b_again            \* what a second call on the same form returned

filterVars == << valid_types, valid_methods, b_raised, b_again >>

\* DataNormalizer.normalize (data_normalizer.py)
VARIABLES
    n_pc,              \* "call" (at client.chat.completions.create for record idx),
                       \* "returned", "raised", "idle" when unused
    schema,            \* self.schema
    retry_limit,       \* self.retry_limit
    raw_data,          \* argument raw_data: the raw records
    idx,               \* loop variable idx of normalize
    n_attempt,         \* loop variable attempt of _normalize_one
    messages,          \* local messages of _normalize_one
    base_messages,     \* self.base_messages of the normalizer
    cleaned,           \* local cleaned of normalize
    n_error,           \* the message of the RuntimeError raised
    n_last,            \* history: the last call: its record, its request, the reply and
                       \* the steps the attempt went through
    n_calls,           \* history: number of calls made for record idx
    n_messages,        \* history: the validation messages of record idx, in order
    d_pc,              \* steps 5 and 6 of _normalize_one on one parsed object: "fill"
                       \* (before _apply_schema_defaults), "validate", "done", "idle"
    d_produced,        \* history: the object as json.loads returned it
    d_record,          \* the object normalized
    d_errors           \* the messages of the errors validate finds in it

normVars == << n_pc, schema, retry_limit, raw_data, idx, n_attempt, messages, base_messages,
               cleaned,
               n_error, n_last, n_calls, n_messages, d_pc, d_produced, d_record,
               d_errors >>

\* the chat front-end (simple-chat.py): the HTTP server and the threads that
\* start_chat launches
VARIABLES
    process,           \* SimpleChatHandler.process: NoProcess (None) or the Popen object,
                       \* named by the number of the launcher thread that made it
    launchers,         \* per thread run_orchestrator: "started" (before Popen),
                       \* "waiting" (in process.wait(), its subprocess runs), "done"
                       \* (its subprocess has exited), "failed" (Popen raised)
    output_queue,      \* SimpleChatHandler.output_queue
    start_replies      \* history: the replies to the /api/start requests, in order

chatVars == << process, launchers, output_queue, start_replies >>

\* the state of the components added to the pipeline model last
otherVars == << filterVars, normVars, chatVars >>

vars == << fetchVars, matchVars, buildVars, confirmVars, otherVars >>

searchVars == << page, retries, response, all_listing_ids, items_fetched, page_log >>
detailVars == << detail_idx, detail_retries, detail_log, details, complete_listings,
                detail_requested, detail_failed >>
\* what the fetcher never writes: its arguments, the server, and the state of the
\* other components
inputVars  == << max_pages, max_records, server, matchVars, buildVars, confirmVars,
                otherVars >>

(***************************************************************************)
(* The environment.  A run talks to one of three kinds of server:          *)
(*   - an arbitrary server: a successful search response carries any body  *)
(*     of SearchBodies (any List, TotalCount and PageSize); requests do    *)
(*     not fail and the caps max_pages / max_records take any value;       *)
(*   - an honest, unreliable server: it holds `total` listings and serves  *)
(*     them in pages of `page_size` (the last one possibly partial),       *)
(*     reporting TotalCount = total and PageSize = page_size; any request  *)
(*     may fail with any status or exception, and a detail body may be {}; *)
(*     no cap is set;                                                      *)
(*   - an honest, reliable server: the same listings, every request        *)
(*     succeeds and the caps take any value.                               *)
(* The retry loop never reads a body and the pagination never reads the    *)
(* outcome of a failed request, so the kinds cover both without their      *)
(* product.                                                                *)
(***************************************************************************)
AnyServer == [honest |-> FALSE, reliable |-> TRUE, total |-> 0, page_size |-> 0]
HonestServers ==
    [honest : {TRUE}, reliable : BOOLEAN,
     total : 0 .. MaxServerTotal, page_size : 1 .. MaxServerPageSize]

Min(a, b) == IF a < b THEN a ELSE b
Max(a, b) == IF a > b THEN a ELSE b

\* number of items an honest server has on page p
HonestCount(srv, p) == Max(0, Min(srv.page_size, srv.total - (p - 1) * srv.page_size))
\* the body an honest server answers a request for page p with
HonestBody(srv, p) ==
    Body([i \in 1 .. HonestCount(srv, p) |-> ItemId(p, i, srv.page_size)],
         srv.total, srv.page_size)

ServedBodies(p) == IF server.honest THEN {HonestBody(server, p)} ELSE SearchBodies(p)

(***************************************************************************)
(* Expressions of fetch_raw_properties                                     *)
(***************************************************************************)
\* wait = 60 after a 429
RateLimitWait == 60

\* wait = 5 * (retries + 1) after a 5xx
ServerErrorWait(r) == 5 * (r + 1)

\* the sleep of the retry loop for a response with status s (0: no sleep)
PageWait_linear429(s, r) == IF s = 429 \/ s >= 500 THEN ServerErrorWait(r) ELSE 0
PageWait(s, r) ==
    IF s = 429 THEN RateLimitWait
    ELSE IF s >= 500 THEN ServerErrorWait(r)
    ELSE 0

\* the bound of `if retries >= 3`
RetryBudget == 3

\* `if retries >= 3: raise FetchError`
BudgetExhausted_offByOne(r) == r > RetryBudget
BudgetExhausted(r) == r >= RetryBudget

\* where the retry loop goes after a counted failure: FetchError leaves the
\* function, otherwise the while loop issues the next request
AfterFailure_swallow(r) == IF BudgetExhausted(r) THEN "collected" ELSE "search"
AfterFailure(r) == IF BudgetExhausted(r) THEN "failed" ELSE "search"

\* retries = 0 at the top of every page
RetriesAtPageStart == 0

\* response.raise_for_status() raises for 4xx and 5xx
RaisesForStatus(s) == 400 <= s /\ s < 600

\* the ListingId values of the items that have one
PageListingIds(items) == SelectSeq(items, LAMBDA id : id # NoListingId)

\* fetched = page * page_size
Fetched_previousPages(p, page_size) == (p - 1) * page_size
Fetched(p, page_size) == p * page_size

\* the four break conditions after a page, in the order of the code
StopsAfterPage_pastMaxPages(count, p, collected, fetched, total, mp, mr) ==
    \/ count = 0
    \/ mp # NoCap /\ p > mp
    \/ mr # NoCap /\ collected >= mr
    \/ fetched >= total
StopsAfterPage(count, p, collected, fetched, total, mp, mr) ==
    \/ count = 0
    \/ mp # NoCap /\ p >= mp
    \/ mr # NoCap /\ collected >= mr
    \/ fetched >= total

\* all_listing_ids[:max_records] when max_records is set and exceeded
TrimIds_noTrim(ids, mr) == ids
TrimIds(ids, mr) ==
    IF mr # NoCap /\ Len(ids) > mr THEN SubSeq(ids, 1, mr) ELSE ids

LogEntry(status, wait) == [status |-> status, wait |-> wait]

\* what fetch_listing_details returns: None, or the JSON object of the body,
\* which is {} (falsy) or a listing
Details(id, kind) == [ListingId |-> id, kind |-> kind]
NoDetails == Details(NoListingId, "none")

(***************************************************************************)
(* The components a specification does not run stay at rest                *)
(***************************************************************************)
\* `return None` of fuzzy_match_item
NoItem == 0

MatchIdle ==
    /\ fm_pc = "idle"
    /\ fm_name = << >>
    /\ fm_items = << >>
    /\ fm_result = NoItem

BuildIdle ==
    /\ b_pc = "idle"
    /\ regions = << >>
    /\ form = << >>
    /\ params = << >>
    /\ match_hints = << >>

\* fetch_raw_properties not called
NoFetchCall == [called |-> FALSE, params |-> << >>]

ConfirmIdle ==
    /\ o_pc = "idle"
    /\ retries_arg = 0
    /\ attempt = 0
    /\ conf_log = << >>
    /\ builds = 0
    /\ fetch_call = NoFetchCall

FilterIdle ==
    /\ valid_types = << >>
    /\ valid_methods = << >>
    /\ b_raised = FALSE
    /\ b_again = << >>

\* process = None, no thread, empty queue
NoProcess == 0
ChatIdle ==
    /\ process = NoProcess
    /\ launchers = << >>
    /\ output_queue = << >>
    /\ start_replies = << >>

NormIdle ==
    /\ n_pc = "idle"
    /\ schema = << >>
    /\ retry_limit = 0
    /\ raw_data = << >>
    /\ idx = 0
    /\ n_attempt = 0
    /\ messages = << >>
    /\ base_messages = << >>
    /\ cleaned = << >>
    /\ n_error = << >>
    /\ n_last = << >>
    /\ n_calls = 0
    /\ n_messages = << >>
    /\ d_pc = "idle"
    /\ d_produced = << >>
    /\ d_record = << >>
    /\ d_errors = {}

(***************************************************************************)
(* Initial states                                                          *)
(***************************************************************************)
InitLocals ==
    /\ pc = "search"
    /\ page = 1
    /\ retries = RetriesAtPageStart
    /\ response = NoResponseYet
    /\ all_listing_ids = << >>
    /\ items_fetched = 0
    /\ page_log = << >>
    /\ detail_idx = 1
    /\ detail_retries = 0
    /\ detail_log = << >>
    /\ details = NoDetails
    /\ complete_listings = << >>
    /\ detail_requested = {}
    /\ detail_failed = {}

Init ==
    /\ InitLocals
    /\ max_pages \in {NoCap} \cup (1 .. MaxCapArg)
    /\ max_records \in {NoCap} \cup (1 .. MaxCapArg)
    /\ server \in {AnyServer} \cup HonestServers
    /\ server.reliable \/ (max_pages = NoCap /\ max_records = NoCap)
    /\ MatchIdle
    /\ ChatIdle
    /\ BuildIdle
    /\ ConfirmIdle
    /\ FilterIdle
    /\ NormIdle

(***************************************************************************)
(* The retry loop of one search page (lines 132-158)                       *)
(***************************************************************************)
\* session.get returns 429: sleep 60, retries += 1, FetchError on the 3rd
SearchRateLimited ==
    /\ pc = "search"
    /\ response' = [status_code |-> 429, body |-> ErrBody]
    /\ page_log' = Append(page_log, LogEntry(429, PageWait(429, retries)))
    /\ retries' = retries + 1
    /\ pc' = AfterFailure(retries')
    /\ UNCHANGED << page, all_listing_ids, items_fetched >>
    /\ UNCHANGED << detailVars, inputVars >>

\* session.get returns a status >= 500: sleep 5 * (retries + 1), retries += 1
SearchServerError(s) ==
    /\ pc = "search"
    /\ s # 429 /\ s >= 500
    /\ response' = [status_code |-> s, body |-> ErrBody]
    /\ page_log' = Append(page_log, LogEntry(s, PageWait(s, retries)))
    /\ retries' = retries + 1
    /\ pc' = AfterFailure(retries')
    /\ UNCHANGED << page, all_listing_ids, items_fetched >>
    /\ UNCHANGED << detailVars, inputVars >>

\* session.get returns another status for which raise_for_status raises: the
\* except clause finds retries < 3 and falls through to the next iteration,
\* without sleeping and without counting
SearchClientError(s) ==
    /\ pc = "search"
    /\ s # 429 /\ s < 500 /\ RaisesForStatus(s)
    /\ response' = [status_code |-> s, body |-> ErrBody]
    /\ page_log' = Append(page_log, LogEntry(s, 0))
    /\ pc' = AfterFailure(retries)
    /\ UNCHANGED << page, retries, all_listing_ids, items_fetched >>
    /\ UNCHANGED << detailVars, inputVars >>

\* session.get itself raises (connection error, timeout): response keeps its
\* old value; same except clause
SearchRaises ==
    /\ pc = "search"
    /\ page_log' = Append(page_log, LogEntry(NoResponse, 0))
    /\ pc' = AfterFailure(retries)
    /\ UNCHANGED << page, retries, response, all_listing_ids, items_fetched >>
    /\ UNCHANGED << detailVars, inputVars >>

\* session.get returns a status that passes raise_for_status: break
SearchOk(s, body) ==
    /\ pc = "search"
    /\ s # 429 /\ s < 500 /\ ~RaisesForStatus(s)
    /\ response' = [status_code |-> s, body |-> body]
    /\ page_log' = Append(page_log, LogEntry(s, 0))
    /\ pc' = "got_page"
    /\ UNCHANGED << page, retries, all_listing_ids, items_fetched >>
    /\ UNCHANGED << detailVars, inputVars >>

(***************************************************************************)
(* After a successful page (lines 160-193)                                 *)
(***************************************************************************)
\* data = response.json() and the rest of the page loop's body.  On the way to
\* the next page the response of this page is dead (the retry loop leaves by
\* break only after assigning a new one), so the model resets it.
Paginate ==
    /\ pc = "got_page"
    /\ LET data  == response.body
           items == data.List
           count == Len(items)
           ids   == all_listing_ids \o PageListingIds(items)
           stop  == StopsAfterPage(count, page, Len(ids),
                                   Fetched(page, data.PageSize), data.TotalCount,
                                   max_pages, max_records)
       IN  /\ all_listing_ids' = ids
           /\ items_fetched' = items_fetched + count
           /\ IF stop
                 THEN /\ pc' = "collected"
                      /\ UNCHANGED << page, retries, page_log, response >>
                 ELSE /\ pc' = "search"
                      /\ page' = page + 1
                      /\ retries' = RetriesAtPageStart
                      /\ page_log' = << >>
                      /\ response' = NoResponseYet
    /\ UNCHANGED << detailVars, inputVars >>

(***************************************************************************)
(* Between the page loop and the detail loop (lines 195-203)               *)
(***************************************************************************)
\* The max_records trim, complete_listings = [] and the entry of the detail loop
\* (the function returns at once when no id was collected).  retries and response are
\* not read again by the function: the model resets the locals that only the
\* page loop uses, so that the detail phase does not depend on them.
StartDetails ==
    /\ pc = "collected"
    /\ all_listing_ids' = TrimIds(all_listing_ids, max_records)
    /\ complete_listings' = << >>
    /\ detail_idx' = 1
    /\ detail_retries' = 0
    /\ pc' = IF all_listing_ids' # << >> THEN "details" ELSE "done"
    /\ response' = NoResponseYet
    /\ page_log' = << >>
    /\ retries' = RetriesAtPageStart
    /\ UNCHANGED << page, items_fetched, detail_log, details, detail_requested,
                    detail_failed, inputVars >>

(***************************************************************************)
(* fetch_listing_details (lines 36-94), called by the detail loop          *)
(***************************************************************************)
\* wait = 60 after a 429
DetailRateLimitWait == 60

\* wait = 5 * (retries + 1) after a 5xx
DetailServerErrorWait(r) == 5 * (r + 1)

\* time.sleep(2) before the retry that follows an exception
DetailExceptionWait == 2

\* `if retries < 3` of the three failure branches
DetailRetryLimit == 3
DetailMayRetry(r) == r < DetailRetryLimit

\* `if details:`
Truthy_always(d) == TRUE
Truthy(d) == d.kind = "object"

CurrentId == all_listing_ids[detail_idx]

\* a failed request of the current listing, after its sleep: the recursive call
\* with retries + 1, or None is returned to the detail loop
DetailFailure(status, wait) ==
    /\ detail_requested' = detail_requested \cup {CurrentId}
    /\ detail_log' = Append(detail_log, LogEntry(status, wait))
    /\ IF DetailMayRetry(detail_retries)
          THEN /\ detail_retries' = detail_retries + 1
               /\ UNCHANGED << pc, details, detail_failed >>
          ELSE /\ details' = NoDetails
               /\ detail_failed' = detail_failed \cup {CurrentId}
               /\ pc' = "got_details"
               /\ UNCHANGED detail_retries
    /\ UNCHANGED << detail_idx, complete_listings, searchVars, inputVars >>

\* 429: sleep 60, then retry or give up
DetailRateLimited ==
    /\ pc = "details"
    /\ DetailFailure(429, DetailRateLimitWait)

\* status >= 500: sleep 5 * (retries + 1), then retry or give up
DetailServerError(s) ==
    /\ pc = "details"
    /\ s # 429 /\ s >= 500
    /\ DetailFailure(s, DetailServerErrorWait(detail_retries))

\* raise_for_status raises: the except clause sleeps 2 and retries, or gives
\* up without sleeping
DetailClientError(s) ==
    /\ pc = "details"
    /\ s # 429 /\ s < 500 /\ RaisesForStatus(s)
    /\ DetailFailure(s, IF DetailMayRetry(detail_retries) THEN DetailExceptionWait ELSE 0)

\* session.get raises: same except clause
DetailRaises ==
    /\ pc = "details"
    /\ DetailFailure(NoResponse, IF DetailMayRetry(detail_retries) THEN DetailExceptionWait ELSE 0)

\* the status passes raise_for_status: response.json() is returned
DetailOk(s, kind) ==
    /\ pc = "details"
    /\ s # 429 /\ s < 500 /\ ~RaisesForStatus(s)
    /\ detail_requested' = detail_requested \cup {CurrentId}
    /\ detail_log' = Append(detail_log, LogEntry(s, 0))
    /\ details' = Details(CurrentId, kind)
    /\ detail_failed' = IF kind = "object" THEN detail_failed
                                           ELSE detail_failed \cup {CurrentId}
    /\ pc' = "got_details"
    /\ UNCHANGED << detail_idx, detail_retries, complete_listings, searchVars, inputVars >>

(***************************************************************************)
(* The detail loop (lines 205-219)                                         *)
(***************************************************************************)
\* the body of the loop after the call: append truthy details, go to the next
\* listing (a new call with retries = 0), or return complete_listings after
\* the last one
NextListing ==
    /\ pc = "got_details"
    /\ complete_listings' = IF Truthy(details) THEN Append(complete_listings, details)
                                               ELSE complete_listings
    /\ detail_idx' = detail_idx + 1
    /\ detail_retries' = 0
    /\ detail_log' = << >>
    /\ details' = NoDetails
    /\ pc' = IF detail_idx' <= Len(all_listing_ids) THEN "details" ELSE "done"
    /\ UNCHANGED << detail_requested, detail_failed, searchVars, inputVars >>

(***************************************************************************)
(* Specification: one call of fetch_raw_properties against any server      *)
(***************************************************************************)
\* the model follows a page up to ReqCap requests, and an arbitrary server (which
\* need never end the pagination) up to page MaxPage
WithinHorizon == Len(page_log) < ReqCap /\ (server.honest \/ page <= MaxPage)
CanFail == ~server.reliable

Next ==
    \/ CanFail /\ WithinHorizon /\ SearchRateLimited
    \/ CanFail /\ WithinHorizon /\ \E s \in Statuses : SearchServerError(s)
    \/ CanFail /\ WithinHorizon /\ \E s \in Statuses : SearchClientError(s)
    \/ CanFail /\ WithinHorizon /\ SearchRaises
    \/ WithinHorizon /\ \E s \in Statuses : \E body \in ServedBodies(page) : SearchOk(s, body)
    \/ Paginate
    \/ StartDetails
    \/ CanFail /\ DetailRateLimited
    \/ CanFail /\ \E s \in Statuses : DetailServerError(s)
    \/ CanFail /\ \E s \in Statuses : DetailClientError(s)
    \/ CanFail /\ DetailRaises
    \/ \E s \in Statuses : DetailOk(s, "object")
    \/ CanFail /\ \E s \in Statuses : DetailOk(s, "empty")
    \/ NextListing

Spec == Init /\ [][Next]_vars

\* the fetcher at rest, for the specifications of the other components
FetchIdle ==
    /\ InitLocals
    /\ max_pages = NoCap
    /\ max_records = NoCap
    /\ server = AnyServer

(***************************************************************************)
(* Strings.  A str is the sequence of its characters; the alphabet has two *)
(* letters in both cases and the space.                                    *)
(***************************************************************************)
LowerChars == {"a", "b"}
UpperChars == {"A", "B"}
Space == " "

\* str.lower()
LowerChar(c) == CASE c = "A" -> "a" [] c = "B" -> "b" [] OTHER -> c
Lower(str) == [i \in DOMAIN str |-> LowerChar(str[i])]

\* str.strip(): without the leading and the trailing whitespace
Strip(str) ==
    LET inked == { i \in DOMAIN str : str[i] # Space }
    IN  IF inked = {} THEN << >>
        ELSE SubSeq(str, CHOOSE i \in inked : \A k \in inked : i <= k,
                         CHOOSE j \in inked : \A k \in inked : k <= j)

\* `sub in str`
Contains(sub, str) ==
    \E i \in 0 .. (Len(str) - Len(sub)) : SubSeq(str, i + 1, i + Len(sub)) = sub

\* the order of str values (by code point: " " < "A" < "B" < "a" < "b";
\* a proper prefix is smaller)
CharCode(c) ==
    CASE c = " " -> 32 [] c = "A" -> 65 [] c = "B" -> 66 [] c = "a" -> 97 [] c = "b" -> 98
StrLess(x, y) ==
    \E i \in 1 .. (Len(y)) :
        /\ i <= Len(x) + 1
        /\ SubSeq(x, 1, i - 1) = SubSeq(y, 1, i - 1)
        /\ \/ i = Len(x) + 1
           \/ i <= Len(x) /\ CharCode(x[i]) < CharCode(y[i])

(***************************************************************************)
(* difflib.get_close_matches(word, possibilities, n=1, cutoff=0.6), as     *)
(* fuzzy_match_item calls it: SequenceMatcher without junk (no autojunk    *)
(* below 200 characters), seq1 the possibility and seq2 the word.          *)
(***************************************************************************)
\* the matching blocks of a and b: a[i .. i+k-1] = b[j .. j+k-1], k > 0
Blocks(a, b) ==
    { blk \in [i : DOMAIN a, j : DOMAIN b, k : 1 .. Len(a)] :
        /\ blk.i + blk.k - 1 <= Len(a)
        /\ blk.j + blk.k - 1 <= Len(b)
        /\ SubSeq(a, blk.i, blk.i + blk.k - 1) = SubSeq(b, blk.j, blk.j + blk.k - 1) }

\* find_longest_match: a longest block; of these the one that starts earliest in
\* a, and of those the one that starts earliest in b
FindLongestMatch(a, b) ==
    CHOOSE blk \in Blocks(a, b) :
        \A o \in Blocks(a, b) :
            \/ blk.k > o.k
            \/ blk.k = o.k /\ blk.i < o.i
            \/ blk.k = o.k /\ blk.i = o.i /\ blk.j <= o.j

\* the sum of the sizes of get_matching_blocks: the longest block, then the same
\* to its left and to its right
RECURSIVE Matches(_, _)
Matches(a, b) ==
    IF Blocks(a, b) = {} THEN 0
    ELSE LET blk == FindLongestMatch(a, b)
         IN  blk.k
             + Matches(SubSeq(a, 1, blk.i - 1), SubSeq(b, 1, blk.j - 1))
             + Matches(SubSeq(a, blk.i + blk.k, Len(a)), SubSeq(b, blk.j + blk.k, Len(b)))

\* ratio() >= 0.6, ratio() being 2.0 * matches / (len(a) + len(b)), and 1.0 for
\* two empty strings (real_quick_ratio and quick_ratio are upper bounds of it)
IsClose(a, b) == 2 * Matches(a, b) * 10 >= 6 * (Len(a) + Len(b))

\* (ratio, x) < (ratio, y), the order heapq.nlargest takes the largest of
ScoreLess(word, x, y) ==
    LET mx == Matches(x, word) * (Len(y) + Len(word))
        my == Matches(y, word) * (Len(x) + Len(word))
    IN  mx < my \/ (mx = my /\ StrLess(x, y))

\* the possibilities get_close_matches keeps, and the one it returns first
CloseMatches(word, possibilities) ==
    { x \in possibilities : IsClose(x, word) }
BestMatch(word, possibilities) ==
    CHOOSE x \in CloseMatches(word, possibilities) :
        \A y \in CloseMatches(word, possibilities) : y = x \/ ScoreLess(word, y, x)


(***************************************************************************)
(* fuzzy_match_item (query_builder.py, lines 35-61).  items is the list of *)
(* the items' names (every item has a str Name); the result is the         *)
(* position of the item returned.                                          *)
(***************************************************************************)
\* target = name.lower().strip()
Target(name) == Strip(Lower(name))

\* the first position of seq at which Test holds: the item a `for item in
\* items: if ...: return item` loop returns
FirstIndex(seq, Test(_)) ==
    IF \E i \in DOMAIN seq : Test(seq[i])
        THEN CHOOSE i \in DOMAIN seq :
                 Test(seq[i]) /\ \A k \in 1 .. (i - 1) : ~Test(seq[k])
        ELSE NoItem

\* 1) candidate.lower() == target
IsExact(target, candidate) == Lower(candidate) = target
ExactTier(target, items) == FirstIndex(items, LAMBDA c : IsExact(target, c))

\* 2) target in candidate or candidate in target, candidate being lowered
IsSubstring(target, candidate) ==
    Contains(target, Lower(candidate)) \/ Contains(Lower(candidate), target)
SubstringTier(target, items) == FirstIndex(items, LAMBDA c : IsSubstring(target, c))

\* 3) close = get_close_matches(target, names, n=1, cutoff=0.6); the first item
\* whose name is close[0]
CloseTier(target, items) ==
    LET names == { items[i] : i \in DOMAIN items }
    IN  IF CloseMatches(target, names) = {} THEN NoItem
        ELSE FirstIndex(items, LAMBDA c : c = BestMatch(target, names))

fuzzy_match_item_looseFirst(name, items) ==
    LET target == Target(name)
    IN  IF SubstringTier(target, items) # NoItem THEN SubstringTier(target, items)
        ELSE IF ExactTier(target, items) # NoItem THEN ExactTier(target, items)
        ELSE CloseTier(target, items)
fuzzy_match_item(name, items) ==
    LET target == Target(name)
    IN  IF ExactTier(target, items) # NoItem THEN ExactTier(target, items)
        ELSE IF SubstringTier(target, items) # NoItem THEN SubstringTier(target, items)
        ELSE CloseTier(target, items)

(***************************************************************************)
(* Specification: one call of fuzzy_match_item on any text and any list    *)
(***************************************************************************)
\* the non-empty lower-case words of at most n letters
LowerWords(n) == UNION { [1 .. k -> LowerChars] : k \in 1 .. n }

\* str.upper() of a lower-case letter
UpperChar(c) == CASE c = "a" -> "A" [] c = "b" -> "B" [] OTHER -> c
\* str.capitalize() of a lower-case word
Capitalize(w) == [i \in DOMAIN w |-> IF i = 1 THEN UpperChar(w[i]) ELSE w[i]]

\* the names of taxonomy items: capitalised words
Names == { Capitalize(w) : w \in LowerWords(MaxNameLen) }

\* the texts of a form field: lower-case words, and texts in other cases,
\* padded with whitespace, blank or empty
Texts ==
    LowerWords(MaxNameLen) \cup
    { << "A", "B" >>, << " ", "A", "b", " " >>, << "b", "A", "b" >>, << " " >>, << >> }

\* the lists of no, one or two items
CandidateLists ==
    {<< >>} \cup { << x >> : x \in Names } \cup { << x, y >> : x \in Names, y \in Names }

MatchInit ==
    /\ fm_pc = "call"
    /\ fm_name \in Texts
    /\ fm_items \in CandidateLists
    /\ fm_result = NoItem
    /\ FetchIdle
    /\ ChatIdle
    /\ BuildIdle
    /\ ConfirmIdle
    /\ FilterIdle
    /\ NormIdle

MatchCall ==
    /\ fm_pc = "call"
    /\ fm_result' = fuzzy_match_item(fm_name, fm_items)
    /\ fm_pc' = "returned"
    /\ UNCHANGED << fm_name, fm_items, fetchVars, otherVars, buildVars, confirmVars >>

MatchNext == MatchCall

MatchSpec == MatchInit /\ [][MatchNext]_vars

(***************************************************************************)
(* build_params_from_form (query_builder.py, lines 64-209): the location   *)
(* part.  regions is what get_regions() returns: a list of regions, each   *)
(* with Name, LocalityId and Districts, each district with Name,           *)
(* DistrictId and Suburbs, each suburb with Name and SuburbId.  The        *)
(* objects region_obj, district_obj and suburb_obj are held as the path of *)
(* the object in regions: << r >>, << r, d >> and << r, d, s >>.           *)
(***************************************************************************)
\* the value None of a form field or of a candidate, and of an id
None == << "None" >>
NoId == 0
\* region_obj = None, district_obj = None, suburb_obj = None
NoObj == << >>

\* `if form_district:`: neither None nor ""
Given(text) == text # None /\ text # << >>

NamesOf(items) == [i \in DOMAIN items |-> items[i].Name]

RegionAt(tree, path) == tree[path[1]]
DistrictAt(tree, path) == tree[path[1]].Districts[path[2]]
SuburbAt(tree, path) == tree[path[1]].Districts[path[2]].Suburbs[path[3]]

\* the paths of all districts, and their order in `for r in regions: for d in
\* r.get("Districts", [])`
DistrictPaths(tree) ==
    UNION { { << r, d >> : d \in DOMAIN tree[r].Districts } : r \in DOMAIN tree }
PathBefore(p, q) == p[1] < q[1] \/ (p[1] = q[1] /\ p[2] < q[2])
FirstPath(paths) == CHOOSE p \in paths : \A q \in paths : q = p \/ PathBefore(p, q)
FirstOf(indices) == CHOOSE i \in indices : \A k \in indices : i <= k

NoObjs == [region_obj |-> NoObj, district_obj |-> NoObj, suburb_obj |-> NoObj]

\* 1) the district, in the first region one of whose districts matches
MatchDistrict(frm, tree, o) ==
    LET hits == { r \in DOMAIN tree :
                    fuzzy_match_item(frm.district, NamesOf(tree[r].Districts)) # NoItem }
        r    == FirstOf(hits)
        d    == fuzzy_match_item(frm.district, NamesOf(tree[r].Districts))
    IN  IF Given(frm.district) /\ hits # {}
            THEN [o EXCEPT !.region_obj = << r >>, !.district_obj = << r, d >>]
            ELSE o

\* 2) the suburb, within the matched district
MatchSuburbInDistrict_skip(frm, tree, o) == o
MatchSuburbInDistrict(frm, tree, o) ==
    LET s == fuzzy_match_item(frm.suburb,
                              NamesOf(DistrictAt(tree, o.district_obj).Suburbs))
    IN  IF Given(frm.suburb) /\ o.district_obj # NoObj /\ s # NoItem
            THEN [o EXCEPT !.suburb_obj = o.district_obj \o << s >>]
            ELSE o

\* 3) the suburb, in the first district of the first region that has a match
MatchSuburbGlobally_keepOwners(frm, tree, o) ==
    LET hits == { path \in DistrictPaths(tree) :
                    fuzzy_match_item(frm.suburb,
                                     NamesOf(DistrictAt(tree, path).Suburbs)) # NoItem }
        path == FirstPath(hits)
        s    == fuzzy_match_item(frm.suburb, NamesOf(DistrictAt(tree, path).Suburbs))
    IN  IF Given(frm.suburb) /\ o.suburb_obj = NoObj /\ hits # {}
            THEN [region_obj   |-> IF o.region_obj = NoObj THEN << path[1] >>
                                                           ELSE o.region_obj,
                  district_obj |-> IF o.district_obj = NoObj THEN path
                                                             ELSE o.district_obj,
                  suburb_obj   |-> path \o << s >>]
            ELSE o
MatchSuburbGlobally(frm, tree, o) ==
    LET hits == { path \in DistrictPaths(tree) :
                    fuzzy_match_item(frm.suburb,
                                     NamesOf(DistrictAt(tree, path).Suburbs)) # NoItem }
        path == FirstPath(hits)
        s    == fuzzy_match_item(frm.suburb, NamesOf(DistrictAt(tree, path).Suburbs))
    IN  IF Given(frm.suburb) /\ o.suburb_obj = NoObj /\ hits # {}
            THEN [region_obj |-> << path[1] >>, district_obj |-> path,
                  suburb_obj |-> path \o << s >>]
            ELSE o

\* 4) the region, if nothing matched so far
MatchRegion_always(frm, tree, o) ==
    LET r == fuzzy_match_item(frm.region, NamesOf(tree))
    IN  IF Given(frm.region) /\ r # NoItem THEN [o EXCEPT !.region_obj = << r >>] ELSE o
MatchRegion(frm, tree, o) ==
    LET r == fuzzy_match_item(frm.region, NamesOf(tree))
    IN  IF /\ o.region_obj = NoObj /\ o.district_obj = NoObj /\ o.suburb_obj = NoObj
           /\ Given(frm.region) /\ r # NoItem
            THEN [o EXCEPT !.region_obj = << r >>]
            ELSE o

\* 5) a suburb without district: the first district that holds its SuburbId
PropagateFromSuburb(tree, o) ==
    LET hits == { path \in DistrictPaths(tree) :
                    \E s \in DOMAIN DistrictAt(tree, path).Suburbs :
                        DistrictAt(tree, path).Suburbs[s].SuburbId
                            = SuburbAt(tree, o.suburb_obj).SuburbId }
        path == FirstPath(hits)
    IN  IF o.suburb_obj # NoObj /\ o.district_obj = NoObj /\ hits # {}
            THEN [o EXCEPT !.district_obj = path, !.region_obj = << path[1] >>]
            ELSE o

\* a district without region: the first region that holds its DistrictId
PropagateFromDistrict(tree, o) ==
    LET hits == { r \in DOMAIN tree :
                    \E d \in DOMAIN tree[r].Districts :
                        tree[r].Districts[d].DistrictId
                            = DistrictAt(tree, o.district_obj).DistrictId }
    IN  IF o.district_obj # NoObj /\ o.region_obj = NoObj /\ hits # {}
            THEN [o EXCEPT !.region_obj = << FirstOf(hits) >>]
            ELSE o

\* steps 1) to 5) in order
ResolveLocation(frm, tree) ==
    PropagateFromDistrict(tree,
      PropagateFromSuburb(tree,
        MatchRegion(frm, tree,
          MatchSuburbGlobally(frm, tree,
            MatchSuburbInDistrict(frm, tree,
              MatchDistrict(frm, tree, NoObjs))))))

\* one entry of match_hints
Hint(input, candidate, id) == [input |-> input, candidate |-> candidate, id |-> id]

\* match_hints as initialised and then populated
MatchHints(frm, tree, o) ==
    [region   |-> IF o.region_obj # NoObj
                     THEN Hint(frm.region, RegionAt(tree, o.region_obj).Name,
                               RegionAt(tree, o.region_obj).LocalityId)
                     ELSE Hint(frm.region, None, NoId),
     district |-> IF o.district_obj # NoObj
                     THEN Hint(frm.district, DistrictAt(tree, o.district_obj).Name,
                               DistrictAt(tree, o.district_obj).DistrictId)
                     ELSE Hint(frm.district, None, NoId),
     suburb   |-> IF o.suburb_obj # NoObj
                     THEN Hint(frm.suburb, SuburbAt(tree, o.suburb_obj).Name,
                               SuburbAt(tree, o.suburb_obj).SuburbId)
                     ELSE Hint(frm.suburb, None, NoId)]

\* params = {} and the location key of the best match
NoParams == [key \in {} |-> NoId]
LocationParams_nullKey(tree, o) ==
    IF o.suburb_obj # NoObj THEN "suburb" :> SuburbAt(tree, o.suburb_obj).SuburbId
    ELSE IF o.district_obj # NoObj
        THEN "district" :> DistrictAt(tree, o.district_obj).DistrictId
    ELSE IF o.region_obj # NoObj
        THEN "region" :> RegionAt(tree, o.region_obj).LocalityId
    ELSE "region" :> NoId
LocationParams_everyLevel(tree, o) ==
    (IF o.suburb_obj # NoObj THEN "suburb" :> SuburbAt(tree, o.suburb_obj).SuburbId
                             ELSE NoParams)
    @@ (IF o.district_obj # NoObj
            THEN "district" :> DistrictAt(tree, o.district_obj).DistrictId ELSE NoParams)
    @@ (IF o.region_obj # NoObj THEN "region" :> RegionAt(tree, o.region_obj).LocalityId
                                ELSE NoParams)
LocationParams(tree, o) ==
    IF o.suburb_obj # NoObj THEN "suburb" :> SuburbAt(tree, o.suburb_obj).SuburbId
    ELSE IF o.district_obj # NoObj
        THEN "district" :> DistrictAt(tree, o.district_obj).DistrictId
    ELSE IF o.region_obj # NoObj
        THEN "region" :> RegionAt(tree, o.region_obj).LocalityId
    ELSE NoParams

\* return params, match_hints
build_params_from_form(frm, tree) ==
    LET o == ResolveLocation(frm, tree)
    IN  [params |-> LocationParams(tree, o), match_hints |-> MatchHints(frm, tree, o)]

\* build_search_query (lines 212-224): endpoint and session do not depend on form
build_search_query(frm, tree) == build_params_from_form(frm, tree)

(***************************************************************************)
(* Specification: one call of build_params_from_form on any form and any   *)
(* taxonomy.  A taxonomy is drawn as the list of its districts in order,   *)
(* each with its name, the names of its suburbs and whether it is the      *)
(* first district of a new region; every region has a district.            *)
(***************************************************************************)
DistrictNamePool == { << "A", "b" >>, << "A", "b", "b" >>, << "B", "a" >> }
SuburbNamePool == { << "A", "b" >>, << "A", "b", "b" >> }

\* the suburb lists of a district: no suburb, one, or both of the pool (the
\* longer name first)
SuburbNameLists ==
    {<< >>} \cup { << x >> : x \in SuburbNamePool } \cup
    { xy \in SuburbNamePool \X SuburbNamePool : Len(xy[1]) > Len(xy[2]) }

DistrictDescs == [name : DistrictNamePool, suburbs : SuburbNameLists, first : BOOLEAN]
TaxonomyDescs ==
    { ds \in UNION { [1 .. n -> DistrictDescs] : n \in 1 .. MaxDistricts } : ds[1].first }

\* the name of the k-th region: Ab, Abb, Abbb, ...
RegionName(k) == << "A" >> \o [i \in 1 .. k |-> "b"]

\* the ids of the k-th region, the i-th district and its s-th suburb
LocalityIdOf(k) == k
DistrictIdOf(i) == 10 + i
SuburbIdOf(i, s) == 100 + 10 * i + s

\* the taxonomy of a description
RegionsOf(ds) ==
    LET starts     == { i \in DOMAIN ds : ds[i].first }
        StartOf(k) == CHOOSE i \in starts : Cardinality({ j \in starts : j < i }) = k - 1
        EndOf(k)   == IF k = Cardinality(starts) THEN Len(ds) ELSE StartOf(k + 1) - 1
        District(i) ==
            [Name |-> ds[i].name, DistrictId |-> DistrictIdOf(i),
             Suburbs |-> [s \in DOMAIN ds[i].suburbs |->
                            [Name |-> ds[i].suburbs[s], SuburbId |-> SuburbIdOf(i, s)]]]
    IN  [k \in 1 .. Cardinality(starts) |->
            [Name |-> RegionName(k), LocalityId |-> LocalityIdOf(k),
             Districts |-> [d \in 1 .. (EndOf(k) - StartOf(k) + 1) |->
                              District(StartOf(k) + d - 1)]]]

Taxonomies == { RegionsOf(ds) : ds \in TaxonomyDescs }

\* the forms: every location field is absent or one of two texts
RegionTexts == { None, << "a", "b", "b" >>, << "b" >> }
DistrictTexts == { None, << "a", "b" >>, << "a", "b", "b" >> }
SuburbTexts == { None, << "a", "b" >>, << "a", "b", "b" >> }
Forms == [region : RegionTexts, district : DistrictTexts, suburb : SuburbTexts]

\* forms with a text that matches the name Abb (it is a part of it) but not Ab
NearMissForms ==
    [region : {None}, district : { None, << "b", "b" >> }, suburb : { None, << "b", "b" >> }]

BuildInit ==
    /\ b_pc = "call"
    /\ regions \in Taxonomies
    /\ form \in Forms \cup NearMissForms
    /\ params = << >>
    /\ match_hints = << >>
    /\ FetchIdle
    /\ ChatIdle
    /\ MatchIdle
    /\ ConfirmIdle
    /\ FilterIdle
    /\ NormIdle

BuildCall ==
    /\ b_pc = "call"
    /\ params' = build_params_from_form(form, regions).params
    /\ match_hints' = build_params_from_form(form, regions).match_hints
    /\ b_pc' = "returned"
    /\ UNCHANGED << regions, form, fetchVars, otherVars, matchVars, confirmVars >>

BuildNext == BuildCall

BuildSpec == BuildInit /\ [][BuildNext]_vars

(***************************************************************************)
(* confirm_location_mapping (data_gathering/orchestrator.py, lines 37-82)  *)
(***************************************************************************)
\* `for level in ("region", "district", "suburb")`
LevelOrder == << "region", "district", "suburb" >>
Levels == { LevelOrder[i] : i \in DOMAIN LevelOrder }

\* desc_lines: per level a line with the input and the candidate of its hint
DescLines(hints) ==
    [i \in DOMAIN LevelOrder |->
        [level |-> LevelOrder[i], input |-> hints[LevelOrder[i]].input,
         candidate |-> hints[LevelOrder[i]].candidate]]

\* a piece of a prompt: a string literal of the source (lines: what the piece
\* holds of desc_lines)
Literal(text) == [text |-> text, lines |-> << >>]

\* system_prompt: three string literals, the second being ".join(desc_lines)"
SystemPrompt(desc_lines) ==
    << Literal("You are a metadata-mapping assistant. A user's location has been interpreted as follows:"),
       Literal(".join(desc_lines)"),
       Literal("Please confirm whether each of these mappings is correct.") >>

\* user_prompt: a tuple of one string
UserPrompt == << Literal("Respond ONLY in JSON. ...") >>

\* the messages of client.chat.completions.create
Request(hints) == [system |-> SystemPrompt(DescLines(hints)), user |-> UserPrompt]

(***************************************************************************)
(* The confirmation loop and the fetch of main (lines 135-167)             *)
(***************************************************************************)
\* conf.get("correction", {}) of a verdict without corrections
NoCorrections == [level \in {} |-> None]

\* the corrections of a verdict: a new text for one level, or for the district
\* and the suburb
Corrections ==
    { "region" :> t : t \in RegionTexts \ {None} } \cup
    { "district" :> t : t \in DistrictTexts \ {None} } \cup
    { "suburb" :> t : t \in SuburbTexts \ {None} } \cup
    { ("district" :> t) @@ ("suburb" :> t) : t \in (DistrictTexts \cap SuburbTexts) \ {None} }

\* the verdicts json.loads may return
Verdicts == [approved : BOOLEAN, correction : Corrections \cup {NoCorrections}]
NoVerdict == [approved |-> FALSE, correction |-> NoCorrections]

\* form.update(corrections)
Update_ignored(frm, corrections) == frm
Update(frm, corrections) ==
    [key \in DOMAIN frm |-> IF key \in DOMAIN corrections THEN corrections[key]
                                                          ELSE frm[key]]

\* the end of an iteration of `for attempt in range(1, args.retries + 1)` that
\* did not break: the next iteration, or the else clause and then the fetch
NextAttemptPc_oneMore(a, n) == IF a < n + 1 THEN "confirm" ELSE "fetch"
NextAttemptPc(a, n) == IF a < n THEN "confirm" ELSE "fetch"
NextAttempt(a, n) == IF NextAttemptPc(a, n) = "confirm" THEN a + 1 ELSE a

\* `break` after an approval
AfterApproval_continue(a, n) == NextAttemptPc(a, n)
AfterApproval(a, n) == "fetch"

\* `break` after a verdict that is no approval and has no corrections
AfterNoCorrections_continue(a, n) == NextAttemptPc(a, n)
AfterNoCorrections(a, n) == "fetch"

\* one call of confirm_location_mapping(match_hints, ...), for the history
Call(hints, raised, verdict) ==
    [hints |-> hints, request |-> Request(hints), raised |-> raised, verdict |-> verdict]

\* the call raises (the API call fails, or the reply is no JSON): continue
ConfirmRaises ==
    /\ o_pc = "confirm"
    /\ conf_log' = Append(conf_log, Call(match_hints, TRUE, NoVerdict))
    /\ o_pc' = NextAttemptPc(attempt, retries_arg)
    /\ attempt' = NextAttempt(attempt, retries_arg)
    /\ UNCHANGED << retries_arg, builds, fetch_call, buildVars, fetchVars, otherVars,
                    matchVars >>

\* conf.get("approved") is true: break
ConfirmApproved(conf) ==
    /\ o_pc = "confirm"
    /\ conf.approved
    /\ conf_log' = Append(conf_log, Call(match_hints, FALSE, conf))
    /\ o_pc' = AfterApproval(attempt, retries_arg)
    /\ UNCHANGED << retries_arg, attempt, builds, fetch_call, buildVars, fetchVars, otherVars,
                    matchVars >>

\* not approved, corrections: form.update(corrections), build_search_query(form)
ConfirmCorrected(conf) ==
    /\ o_pc = "confirm"
    /\ ~conf.approved /\ conf.correction # NoCorrections
    /\ conf_log' = Append(conf_log, Call(match_hints, FALSE, conf))
    /\ form' = Update(form, conf.correction)
    /\ params' = build_search_query(form', regions).params
    /\ match_hints' = build_search_query(form', regions).match_hints
    /\ builds' = builds + 1
    /\ o_pc' = NextAttemptPc(attempt, retries_arg)
    /\ attempt' = NextAttempt(attempt, retries_arg)
    /\ UNCHANGED << retries_arg, fetch_call, b_pc, regions, fetchVars, otherVars, matchVars >>

\* not approved, no corrections: break
ConfirmNoCorrections(conf) ==
    /\ o_pc = "confirm"
    /\ ~conf.approved /\ conf.correction = NoCorrections
    /\ conf_log' = Append(conf_log, Call(match_hints, FALSE, conf))
    /\ o_pc' = AfterNoCorrections(attempt, retries_arg)
    /\ UNCHANGED << retries_arg, attempt, builds, fetch_call, buildVars, fetchVars, otherVars,
                    matchVars >>

\* Step 4: fetch_raw_properties(endpoint, params, session)
FetchCall ==
    /\ o_pc = "fetch"
    /\ fetch_call' = [called |-> TRUE, params |-> params]
    /\ o_pc' = "done"
    /\ UNCHANGED << retries_arg, attempt, conf_log, builds, buildVars, fetchVars, otherVars,
                    matchVars >>

(***************************************************************************)
(* Specification: main from the initial build on, with any --retries, any  *)
(* form that names a location and any replies of the capability            *)
(***************************************************************************)
\* three taxonomies: two regions of one district, one region of two districts,
\* and one region whose only district, Ba, has no suburbs and matches no text
\* of the forms
ExampleTaxonomies ==
    { RegionsOf(<< [name |-> << "A", "b" >>, suburbs |-> << << "A", "b", "b" >> >>,
                    first |-> TRUE],
                   [name |-> << "A", "b", "b" >>, suburbs |-> << << "A", "b" >> >>,
                    first |-> first] >>) : first \in BOOLEAN }
    \cup { RegionsOf(<< [name |-> << "B", "a" >>, suburbs |-> << >>, first |-> TRUE] >>) }

\* `if not any(form.get(k) for k in ("region", "district", "suburb"))`
NamesLocation(frm) == \E level \in Levels : Given(frm[level])

ConfirmInit ==
    /\ regions \in ExampleTaxonomies
    /\ form \in { frm \in Forms : NamesLocation(frm) }
    /\ params = build_search_query(form, regions).params
    /\ match_hints = build_search_query(form, regions).match_hints
    /\ builds = 1
    /\ b_pc = "idle"
    /\ retries_arg \in 0 .. MaxAttempts
    /\ attempt = IF retries_arg >= 1 THEN 1 ELSE 0
    /\ o_pc = IF retries_arg >= 1 THEN "confirm" ELSE "fetch"
    /\ conf_log = << >>
    /\ fetch_call = NoFetchCall
    /\ FetchIdle
    /\ ChatIdle
    /\ MatchIdle
    /\ FilterIdle
    /\ NormIdle

ConfirmNext ==
    \/ ConfirmRaises
    \/ \E conf \in Verdicts : ConfirmApproved(conf)
    \/ \E conf \in Verdicts : ConfirmCorrected(conf)
    \/ \E conf \in Verdicts : ConfirmNoCorrections(conf)
    \/ FetchCall

ConfirmSpec == ConfirmInit /\ [][ConfirmNext]_vars

(***************************************************************************)
(* The loop when the capability may also reply JSON that is no object      *)
(***************************************************************************)
\* what json.loads returns for a reply that is JSON but no object
NonObjects == { [json |-> kind] : kind \in { "array", "string", "number", "null" } }

\* the reply is JSON but no object: confirm_location_mapping returns it, and
\* conf.get("approved") (line 143, outside the try) raises AttributeError,
\* which nothing in main catches
ConfirmNotObject(conf) ==
    /\ o_pc = "confirm"
    /\ conf_log' = Append(conf_log, Call(match_hints, FALSE, conf))
    /\ o_pc' = "aborted"
    /\ UNCHANGED << retries_arg, attempt, builds, fetch_call, buildVars, fetchVars, otherVars,
                    matchVars >>

AnyReplyNext ==
    \/ ConfirmNext
    \/ \E conf \in NonObjects : ConfirmNotObject(conf)

AnyReplySpec == ConfirmInit /\ [][AnyReplyNext]_vars

(***************************************************************************)
(* The rest of the run: Step 5 of main (data_gathering/orchestrator.py,    *)
(* lines 169-172) and Phase 3 of the pipeline (orchestrator.py, lines      *)
(* 88-99)                                                                  *)
(***************************************************************************)
\* Step 5: out_path.write_text(json.dumps(raw_props, indent=2)); main returns
SaveRaw ==
    /\ o_pc = "done"
    /\ o_pc' = "saved"
    /\ UNCHANGED << retries_arg, attempt, conf_log, builds, fetch_call, buildVars, fetchVars,
                    otherVars, matchVars >>

\* Phase 3: match_properties(profile_path, listings_path=args.raw_out, ...),
\* the next statement after gather_data()
MatchProperties ==
    /\ o_pc = "saved"
    /\ o_pc' = "matched"
    /\ UNCHANGED << retries_arg, attempt, conf_log, builds, fetch_call, buildVars, fetchVars,
                    otherVars, matchVars >>

PipelineNext ==
    \/ ConfirmNext
    \/ SaveRaw
    \/ MatchProperties

PipelineSpec == ConfirmInit /\ [][PipelineNext]_vars

(***************************************************************************)
(* build_params_from_form: numeric ranges and categorical filters          *)
(* (query_builder.py, lines 161-209).  Values of a form are Python values: *)
(* a record with the class (py) and, but for None, the value (v).          *)
(***************************************************************************)
PyNone == [py |-> "NoneType"]
PyBool(b) == [py |-> "bool", v |-> b]
PyInt(n) == [py |-> "int", v |-> n]
PyStr(text) == [py |-> "str", v |-> text]
PyList(seq) == [py |-> "list", v |-> seq]
PyDict(f) == [py |-> "dict", v |-> f]

\* d.get(key) of a dict held as a function
Get(d, key) == IF key \in DOMAIN d THEN d[key] ELSE PyNone

\* numeric_map: (form_key, param_key)
numeric_map ==
    << << "min_price", "price_min" >>, << "max_price", "price_max" >>,
       << "min_bedrooms", "bedrooms_min" >>, << "max_bedrooms", "bedrooms_max" >>,
       << "min_bathrooms", "bathrooms_min" >>, << "max_bathrooms", "bathrooms_max" >>,
       << "min_carparks", "car_spaces_min" >>, << "max_carparks", "car_spaces_max" >> >>

\* `if form.get(form_key) is not None`
IsSet_truthy(value) == value # PyNone /\ value # PyInt(0)
IsSet(value) == value # PyNone

\* the numeric range params: params[param_key] = form.get(form_key)
NumericParams(frm) ==
    LET set == { i \in DOMAIN numeric_map : IsSet(Get(frm.numeric, numeric_map[i][1])) }
    IN  [key \in { numeric_map[i][2] : i \in set } |->
            LET i == CHOOSE i \in set : numeric_map[i][2] = key
            IN  Get(frm.numeric, numeric_map[i][1])]

\* `if types:` for None, a str or a list
NonEmpty(value) == value # PyNone /\ value.v # << >>

\* vals = types if isinstance(types, list) else [types]
Vals(value) == IF value.py = "list" THEN value.v ELSE << value.v >>

\* the key selected for the value v: v itself when it is a key, else the first
\* key that equals it but for case, else None (ValueError)
SelectKey_dropCase(v, keys) ==
    IF \E k \in DOMAIN keys : keys[k] = v THEN v ELSE None
SelectKey(v, keys) ==
    IF \E k \in DOMAIN keys : keys[k] = v
        THEN v
        ELSE LET same == { k \in DOMAIN keys : Lower(keys[k]) = Lower(v) }
             IN  IF same = {} THEN None ELSE keys[FirstOf(same)]

\* ",".join(selected)
RECURSIVE Join(_)
Join(selected) ==
    IF selected = << >> THEN << >>
    ELSE IF Len(selected) = 1 THEN selected[1]
    ELSE selected[1] \o << "," >> \o Join(Tail(selected))

\* a categorical filter (lines 172-188 and 190-206): nothing for an empty input,
\* else the joined keys of all values, or ValueError
CategoricalParam(value, keys, param_key) ==
    IF ~NonEmpty(value)
        THEN [raised |-> FALSE, params |-> NoParams]
        ELSE LET vals     == Vals(value)
                 selected == [i \in DOMAIN vals |-> SelectKey(vals[i], keys)]
             IN  IF \E i \in DOMAIN vals : selected[i] = None
                     THEN [raised |-> TRUE, params |-> NoParams]
                     ELSE [raised |-> FALSE, params |-> param_key :> Join(selected)]

\* `return params, match_hints` (line 209) unless a ValueError was raised on the
\* way
Returned(location, numeric, types, methods) ==
    IF types.raised \/ methods.raised
        THEN [raised |-> TRUE, params |-> << >>, match_hints |-> << >>]
        ELSE [raised |-> FALSE,
              params |-> location.params @@ numeric @@ types.params @@ methods.params,
              match_hints |-> location.match_hints]

\* build_params_from_form on a form that also has numeric ranges and categorical
\* filters: what it returns, or that it raised
build_params(frm, tree, property_types, sales_methods) ==
    Returned(build_params_from_form(frm, tree), NumericParams(frm),
             CategoricalParam(frm.property_types, property_types, "property_type"),
             CategoricalParam(frm.sales_methods, sales_methods, "sales_method"))

\* the form after a call: the function reads form (form.get) and never writes it
FormAfterBuild_resolved(frm, hints) ==
    [frm EXCEPT !.district = IF hints.district.candidate = None THEN @
                             ELSE hints.district.candidate]
FormAfterBuild(frm, hints) == frm

(***************************************************************************)
(* Specification: two calls of build_params_from_form on the same form,    *)
(* for forms with up to MaxFormKeys numeric keys and any filters           *)
(***************************************************************************)
\* the numeric part of a form: some keys, each null, 0 or 1
NumericForms ==
    LET keys == { numeric_map[i][1] : i \in DOMAIN numeric_map }
    IN  UNION { [K -> { PyNone, PyInt(0), PyInt(1) }] :
                  K \in { K \in SUBSET keys : Cardinality(K) <= MaxFormKeys } }

\* property_types and sales_methods of a form, and the vocabularies
TypeInputs ==
    { PyNone, PyStr(<< "a", "b" >>), PyList(<< >>), PyList(<< << "A", "b" >> >>),
      PyList(<< << "b" >>, << "a", "b" >> >>), PyList(<< << "a", "b" >>, << "a" >> >>) }
MethodInputs == { PyNone, PyStr(<< "B" >>), PyList(<< << "b" >> >>) }
TypeVocabularies ==
    { << << "A", "b" >>, << "B" >> >>, << << "a", "B" >>, << "A", "b" >> >>, << >> }
MethodVocabularies == { << << "B" >> >>, << << "b" >>, << "B" >> >> }

FullForms ==
    [region : {None}, district : { None, << "a", "b" >> }, suburb : {None},
     numeric : NumericForms, property_types : TypeInputs, sales_methods : MethodInputs]

FilterInit ==
    /\ b_pc = "call"
    /\ regions \in ExampleTaxonomies
    /\ form \in FullForms
    /\ valid_types \in TypeVocabularies
    /\ valid_methods \in MethodVocabularies
    /\ params = << >>
    /\ match_hints = << >>
    /\ b_raised = FALSE
    /\ b_again = << >>
    /\ FetchIdle
    /\ ChatIdle
    /\ MatchIdle
    /\ ConfirmIdle
    /\ NormIdle

\* the first call
FilterCall ==
    /\ b_pc = "call"
    /\ \E built \in { build_params(form, regions, valid_types, valid_methods) } :
           /\ b_raised' = built.raised
           /\ params' = built.params
           /\ match_hints' = built.match_hints
           /\ b_pc' = IF built.raised THEN "raised" ELSE "returned"
           /\ form' = IF built.raised THEN form ELSE FormAfterBuild(form, built.match_hints)
    /\ UNCHANGED << regions, valid_types, valid_methods, b_again, fetchVars, matchVars,
                    confirmVars, normVars, chatVars >>

\* the second call, on the form as the first call left it
FilterAgain ==
    /\ b_pc = "returned"
    /\ b_again' = build_params(form, regions, valid_types, valid_methods)
    /\ b_pc' = "again"
    /\ form' = FormAfterBuild(form, b_again'.match_hints)
    /\ UNCHANGED << regions, params, match_hints, valid_types, valid_methods, b_raised,
                    fetchVars, matchVars, confirmVars, normVars, chatVars >>

FilterNext == FilterCall \/ FilterAgain

FilterSpec == FilterInit /\ [][FilterNext]_vars

(***************************************************************************)
(* DataNormalizer._apply_schema_defaults (data_normalizer.py, lines        *)
(* 88-128) and the validation of line 192.  A schema is held as its        *)
(* properties (per key the subschema: its type, None when it has none, and *)
(* its minimum, None when it has none) and its required keys.              *)
(***************************************************************************)
\* a float that is no whole number
PyFloat(text) == [py |-> "float", v |-> text]

\* isinstance(v, classes); bool is a subclass of int
IsInstance(v, classes) == v.py \in classes \/ (v.py = "bool" /\ "int" \in classes)

\* types = allowed if isinstance(allowed, list) else [allowed]
Types(subschema) ==
    IF subschema.type = PyNone THEN << "None" >>
    ELSE IF subschema.type.py = "list" THEN subschema.type.v
    ELSE << subschema.type.v >>

\* matches_type (lines 104-113)
matches_type(v, t) ==
    \/ t = "array" /\ IsInstance(v, {"list"})
    \/ t = "object" /\ IsInstance(v, {"dict"})
    \/ t = "string" /\ IsInstance(v, {"str"})
    \/ t = "integer" /\ IsInstance(v, {"int"}) /\ ~IsInstance(v, {"bool"})
    \/ t = "number" /\ IsInstance(v, {"int", "float"})
    \/ t = "boolean" /\ IsInstance(v, {"bool"})
    \/ t = "null" /\ v = PyNone

\* `"array" in types`
In(t, types) == \E i \in DOMAIN types : types[i] = t

\* the default assigned (lines 117-128)
EmptyDict == [key \in {} |-> PyNone]
DefaultFor(types) ==
    IF In("array", types) THEN PyList(<< >>)
    ELSE IF In("object", types) THEN PyDict(EmptyDict)
    ELSE IF In("string", types) THEN PyStr(<< >>)
    ELSE IF In("integer", types) \/ In("number", types) THEN PyInt(0)
    ELSE IF In("boolean", types) THEN PyBool(FALSE)
    ELSE PyNone

\* every schema property is assigned its default
GetsDefault_always(record, key, types) == TRUE

\* whether the key is assigned its default: not when the value is None and null
\* is allowed (line 100); else when the value is None or of no allowed type
GetsDefault(record, key, types) ==
    LET val == Get(record, key)
    IN  /\ ~(val = PyNone /\ In("null", types))
        /\ val = PyNone \/ ~\E i \in DOMAIN types : matches_type(val, types[i])

\* _apply_schema_defaults: the record after the call
apply_schema_defaults(record, sch) ==
    LET props  == sch.properties
        filled == { key \in DOMAIN props : GetsDefault(record, key, Types(props[key])) }
    IN  [key \in DOMAIN record \cup filled |->
            IF key \in filled THEN DefaultFor(Types(props[key])) ELSE record[key]]

\* jsonschema: the value is of the JSON type t (a boolean is neither an integer
\* nor a number)
IsJsonType(v, t) ==
    \/ t = "array" /\ v.py = "list"
    \/ t = "object" /\ v.py = "dict"
    \/ t = "string" /\ v.py = "str"
    \/ t = "integer" /\ v.py = "int"
    \/ t = "number" /\ v.py \in {"int", "float"}
    \/ t = "boolean" /\ v.py = "bool"
    \/ t = "null" /\ v = PyNone

\* validate(instance=normalized, schema=self.schema): the messages of the errors
\* found (none: the instance is valid); ValidationError carries one of them
ValidationErrors(record, sch) ==
    LET props == sch.properties
    IN  { [error |-> "required", key |-> key] : key \in sch.required \ DOMAIN record }
        \cup
        { [error |-> "type", key |-> key] :
            key \in { k \in DOMAIN props \cap DOMAIN record :
                        /\ props[k].type # PyNone
                        /\ ~\E i \in DOMAIN Types(props[k]) :
                               IsJsonType(record[k], Types(props[k])[i]) } }
        \cup
        { [error |-> "minimum", key |-> key] :
            key \in { k \in DOMAIN props \cap DOMAIN record :
                        /\ props[k].minimum # PyNone
                        /\ record[k].py = "int"
                        /\ record[k].v < props[k].minimum.v } }

(***************************************************************************)
(* Specification: steps 5 and 6 of _normalize_one on any parsed object and *)
(* any schema with the properties bedrooms and title                       *)
(***************************************************************************)
TypeNames == { "array", "object", "string", "integer", "number", "boolean", "null" }

\* the "type" of a subschema: a name, a list of two names, or none
TypeDecls ==
    { PyStr(t) : t \in TypeNames } \cup
    { PyList(<< t, u >>) : t \in TypeNames \ {"null"}, u \in {"null", "boolean", "array"} }
    \cup {PyNone}

Schemas ==
    { [properties |-> ("bedrooms" :> [type |-> decl, minimum |-> PyNone])
                      @@ ("title" :> [type |-> PyStr("string"), minimum |-> PyNone]),
       required |-> required] :
        decl \in TypeDecls, required \in { {}, {"bedrooms"}, {"bedrooms", "title"} } }

\* the values json.loads may produce for a key
Values ==
    { PyNone, PyBool(TRUE), PyBool(FALSE), PyInt(0), PyInt(1), PyFloat("1.5"),
      PyStr(<< >>), PyStr(<< "a" >>), PyList(<< >>), PyList(<< PyInt(1) >>),
      PyDict(EmptyDict) }

\* the objects json.loads may return: bedrooms, title and a key the schema does
\* not declare, each missing or with some value
Objects ==
    UNION { [K -> Values] : K \in SUBSET {"bedrooms"} } \cup
    { obj @@ rest :
        obj \in { "bedrooms" :> PyInt(1), "bedrooms" :> PyBool(TRUE), EmptyDict },
        rest \in { "title" :> PyStr(<< "a" >>), "title" :> PyInt(1), "note" :> PyInt(1),
                   ("title" :> PyNone) @@ ("note" :> PyNone) } }

DefaultsInit ==
    /\ d_pc = "fill"
    /\ schema \in Schemas
    /\ d_produced \in Objects
    /\ d_record = d_produced
    /\ d_errors = {}
    /\ n_pc = "idle" /\ retry_limit = 0 /\ raw_data = << >> /\ idx = 0 /\ n_attempt = 0
    /\ messages = << >> /\ cleaned = << >> /\ n_error = << >> /\ n_last = << >>
    /\ n_calls = 0 /\ n_messages = << >> /\ base_messages = << >>
    /\ FetchIdle
    /\ ChatIdle
    /\ MatchIdle
    /\ BuildIdle
    /\ ConfirmIdle
    /\ FilterIdle

\* 5. self._apply_schema_defaults(normalized)
ApplyDefaults ==
    /\ d_pc = "fill"
    /\ d_record' = apply_schema_defaults(d_record, schema)
    /\ d_pc' = "validate"
    /\ UNCHANGED << n_pc, schema, retry_limit, raw_data, idx, n_attempt, messages, cleaned,
                    n_error, n_last, n_calls, n_messages, base_messages, d_produced, d_errors,
                    fetchVars, matchVars, buildVars, confirmVars, filterVars,
                    chatVars >>

\* 6. validate(instance=normalized, schema=self.schema)
Validate ==
    /\ d_pc = "validate"
    /\ d_errors' = ValidationErrors(d_record, schema)
    /\ d_pc' = "done"
    /\ UNCHANGED << n_pc, schema, retry_limit, raw_data, idx, n_attempt, messages, cleaned,
                    n_error, n_last, n_calls, n_messages, base_messages, d_produced, d_record,
                    fetchVars, matchVars, buildVars, confirmVars, filterVars,
                    chatVars >>

DefaultsNext == ApplyDefaults \/ Validate

DefaultsSpec == DefaultsInit /\ [][DefaultsNext]_vars

(***************************************************************************)
(* DataNormalizer._normalize_one and normalize (data_normalizer.py, lines  *)
(* 130-235)                                                                *)
(***************************************************************************)
Message(role, name, content) == [role |-> role, name |-> name, content |-> content]

\* self.base_messages as __init__ builds it: the system prompt and the schema
\* text
BaseMessages ==
    << Message("system", "", [text |-> "SYSTEM_PROMPT"]),
       Message("system", "schema", [text |-> "schema_text"]) >>

\* messages at the start of _normalize_one: a copy of base_messages and the
\* raw record
InitialMessages(record) ==
    base_messages \o << Message("system", "raw_record", [json |-> record]) >>

\* the corrective instructions of lines 155-161, 170-173 and 181-184
Instruction(kind) ==
    Message("user", "",
            [text |-> IF kind = "no_call"
                          THEN "Please return ONLY the JSON object matching the schema"
                      ELSE IF kind = "bad_json"
                          THEN "Invalid JSON. Please return only the JSON object."
                      ELSE "Expected a JSON object. Please correct."])
\* and of lines 197-203
ValidationFeedback(message) ==
    Message("user", "", [text |-> "Validation error. Please correct your JSON output.",
                         message |-> message])

\* the RuntimeErrors of lines 206-208 and 211
NoMessage == [error |-> "none"]
ValidationFailed(limit, message) ==
    [text |-> "Failed to validate record after attempts", attempts |-> limit,
     message |-> message]
RetriesExceeded == [text |-> "Exceeded retry limit normalizing record.", message |-> NoMessage]
NoError == << >>

\* what the capability replies: no function call, arguments that are no JSON,
\* or arguments that json.loads parses to a value
NoCall == [function_call |-> FALSE]
BadArguments == [function_call |-> TRUE, json |-> FALSE]
Arguments(value) == [function_call |-> TRUE, json |-> TRUE, value |-> value]

\* the first element of any array that has one
Unwrap_first(value) == IF value.py = "list" /\ Len(value.v) >= 1 THEN value.v[1] ELSE value

\* 4. unwrap single-item arrays
Unwrap(value) == IF value.py = "list" /\ Len(value.v) = 1 THEN value.v[1] ELSE value

\* how far an attempt with this reply gets: steps 2 to 6
Outcome(reply, sch) ==
    IF ~reply.function_call THEN [kind |-> "no_call"]
    ELSE IF ~reply.json THEN [kind |-> "bad_json"]
    ELSE IF Unwrap(reply.value).py # "dict" THEN [kind |-> "not_object"]
    ELSE LET normalized == apply_schema_defaults(Unwrap(reply.value).v, sch)
         IN  [kind |-> "object", record |-> normalized,
              errors |-> ValidationErrors(normalized, sch)]

\* records = raw_data if isinstance(raw_data, list) else [raw_data]
Records(raw) == IF raw.py = "list" THEN raw.v ELSE << raw >>

\* `for attempt in range(1, self.retry_limit + 1)`: is there an iteration
\* after attempt a
HasAttempt_oneMore(a, limit) == a <= limit
HasAttempt(a, limit) == a < limit

\* `raise RuntimeError(...)`: nothing in normalize catches it, so it leaves
\* normalize and `return cleaned` is never reached
Raise_andReturn(error) ==
    /\ n_pc' = "returned"
    /\ n_error' = error
    /\ UNCHANGED << idx, cleaned, n_attempt >>
Raise(error) ==
    /\ n_pc' = "raised"
    /\ n_error' = error
    /\ UNCHANGED << idx, cleaned, n_attempt >>

\* `messages = list(self.base_messages)` copies the list: messages.append does
\* not reach self.base_messages
BaseAfterAppend_shared(base, feedback) == Append(base, feedback)
BaseAfterAppend(base, feedback) == base

\* `continue`: the next attempt, or the RuntimeError of line 211
Continue(feedback) ==
    /\ messages' = Append(messages, feedback)
    /\ base_messages' = BaseAfterAppend(base_messages, feedback)
    /\ IF HasAttempt(n_attempt, retry_limit)
          THEN /\ n_pc' = "call"
               /\ n_attempt' = n_attempt + 1
               /\ UNCHANGED << n_error, idx, cleaned >>
          ELSE Raise(RetriesExceeded)

\* the history of a call
CallRecord(reply, outcome) ==
    [record |-> idx, attempt |-> n_attempt, request |-> messages, reply |-> reply,
     kind |-> outcome.kind, filled |-> outcome.kind = "object",
     validated |-> outcome.kind = "object"]

\* `return normalized` and, in normalize, cleaned.append(normalized): the next
\* record, or `return cleaned`
ReturnRecord_unchecked(normalized, errors) == TRUE
ReturnRecord(normalized, errors) == errors = {}

NextRecord(normalized) ==
    /\ cleaned' = Append(cleaned, normalized)
    /\ n_error' = n_error
    /\ UNCHANGED base_messages
    /\ IF idx < Len(Records(raw_data))
          THEN /\ idx' = idx + 1
               /\ messages' = InitialMessages(Records(raw_data)[idx + 1])
               /\ n_attempt' = 1
               /\ n_pc' = "call"
               /\ n_calls' = 0
               /\ n_messages' = << >>
          ELSE /\ n_pc' = "returned"
               /\ n_calls' = n_calls + 1
               /\ UNCHANGED << idx, messages, n_attempt, n_messages >>

\* the reply has no function call, no JSON or no object: instruct and continue
NormalizeUnparsed(reply) ==
    /\ n_pc = "call"
    /\ Outcome(reply, schema).kind # "object"
    /\ n_last' = CallRecord(reply, Outcome(reply, schema))
    /\ n_calls' = n_calls + 1
    /\ Continue(Instruction(Outcome(reply, schema).kind))
    /\ UNCHANGED << schema, retry_limit, raw_data, n_messages, d_pc, d_produced, d_record,
                    d_errors, fetchVars, matchVars, buildVars, confirmVars, filterVars,
                    chatVars >>

\* the reply is an object that is valid after default-filling: return it
NormalizeValid(reply) ==
    /\ n_pc = "call"
    /\ Outcome(reply, schema).kind = "object"
    /\ ReturnRecord(Outcome(reply, schema).record, Outcome(reply, schema).errors)
    /\ n_last' = CallRecord(reply, Outcome(reply, schema))
    /\ NextRecord(Outcome(reply, schema).record)
    /\ UNCHANGED << schema, retry_limit, raw_data, d_pc, d_produced, d_record,
                    d_errors, fetchVars, matchVars, buildVars, confirmVars, filterVars,
                    chatVars >>

\* the reply is an object that validate rejects: feed the message back and
\* continue, or raise on the last attempt
NormalizeInvalid(reply) ==
    /\ n_pc = "call"
    /\ Outcome(reply, schema).kind = "object"
    /\ ~ReturnRecord(Outcome(reply, schema).record, Outcome(reply, schema).errors)
    /\ \E message \in Outcome(reply, schema).errors :
          /\ n_messages' = Append(n_messages, message)
          /\ IF n_attempt < retry_limit
                THEN Continue(ValidationFeedback(message))
                ELSE /\ Raise(ValidationFailed(retry_limit, message))
                     /\ UNCHANGED << messages, base_messages >>
    /\ n_last' = CallRecord(reply, Outcome(reply, schema))
    /\ n_calls' = n_calls + 1
    /\ UNCHANGED << schema, retry_limit, raw_data, d_pc, d_produced, d_record,
                    d_errors, fetchVars, matchVars, buildVars, confirmVars, filterVars,
                    chatVars >>

(***************************************************************************)
(* Specification: normalize on up to MaxRecords raw records with any       *)
(* retry_limit up to MaxRetryLimit and any replies of the capability       *)
(***************************************************************************)
\* bedrooms: an integer, in the second schema of at least 1
NormSchemas ==
    { [properties |-> ("bedrooms" :> [type |-> PyStr("integer"), minimum |-> minimum])
                      @@ ("title" :> [type |-> PyStr("string"), minimum |-> PyNone]),
       required |-> {"bedrooms"}] : minimum \in { PyNone, PyInt(1) } }

RawRecord(k) == PyDict("ListingId" :> PyInt(k))
RawInputs ==
    { PyList([k \in 1 .. n |-> RawRecord(k)]) : n \in 0 .. MaxRecords } \cup { RawRecord(1) }

ReplyObjects ==
    { "bedrooms" :> PyInt(1), "bedrooms" :> PyInt(0), EmptyDict,
      "bedrooms" :> PyStr(<< "a" >>), ("bedrooms" :> PyInt(1)) @@ ("note" :> PyInt(1)) }
Replies ==
    { NoCall, BadArguments } \cup
    { Arguments(value) :
        value \in { PyInt(1), PyList(<< >>), PyList(<< PyInt(1) >>),
                    PyList(<< PyDict(EmptyDict), PyDict(EmptyDict) >>),
                    PyList(<< PyDict("bedrooms" :> PyInt(1)) >>) }
                  \cup { PyDict(obj) : obj \in ReplyObjects } }

NormInit ==
    /\ schema \in NormSchemas
    /\ retry_limit \in 0 .. MaxRetryLimit
    /\ raw_data \in RawInputs
    /\ base_messages = BaseMessages
    /\ cleaned = << >>
    /\ n_last = << >>
    /\ n_calls = 0
    /\ n_messages = << >>
    /\ IF Records(raw_data) = << >>
          THEN idx = 0 /\ n_attempt = 0 /\ messages = << >> /\ n_pc = "returned"
                       /\ n_error = NoError
          ELSE /\ idx = 1
               /\ messages = InitialMessages(Records(raw_data)[1])
               /\ IF HasAttempt(0, retry_limit)
                     THEN n_attempt = 1 /\ n_pc = "call" /\ n_error = NoError
                     ELSE n_attempt = 0 /\ n_pc = "raised" /\ n_error = RetriesExceeded
    /\ d_pc = "idle" /\ d_produced = << >> /\ d_record = << >> /\ d_errors = {}
    /\ FetchIdle
    /\ ChatIdle
    /\ MatchIdle
    /\ BuildIdle
    /\ ConfirmIdle
    /\ FilterIdle

NormNext ==
    \/ \E reply \in Replies : NormalizeUnparsed(reply)
    \/ \E reply \in Replies : NormalizeValid(reply)
    \/ \E reply \in Replies : NormalizeInvalid(reply)

NormSpec == NormInit /\ [][NormNext]_vars

(***************************************************************************)
(* The chat front-end: SimpleChatHandler.start_chat and its thread         *)
(* run_orchestrator (simple-chat.py, lines 150-206).  HTTPServer handles   *)
(* one request at a time; the threads it starts run beside it.             *)
(***************************************************************************)
Started == [status |-> "started"]
AlreadyRunning == [error |-> "Already running"]

\* `if SimpleChatHandler.process:` a Popen object is true, None is not
IsRunning(handle) == handle # NoProcess

\* POST /api/start while the handle is set: {'error': 'Already running'}
StartRefused ==
    /\ Len(start_replies) < MaxStarts
    /\ IsRunning(process)
    /\ start_replies' = Append(start_replies, AlreadyRunning)
    /\ UNCHANGED << process, launchers, output_queue, fetchVars, matchVars, buildVars,
                    confirmVars, filterVars, normVars >>

\* POST /api/start otherwise: thread.start() and {'status': 'started'}
StartAccepted ==
    /\ Len(start_replies) < MaxStarts
    /\ ~IsRunning(process)
    /\ launchers' = Append(launchers, "started")
    /\ start_replies' = Append(start_replies, Started)
    /\ UNCHANGED << process, output_queue, fetchVars, matchVars, buildVars, confirmVars,
                    filterVars, normVars >>

\* run_orchestrator: SimpleChatHandler.process = subprocess.Popen(...), the two
\* daemon threads, then process.wait()
LauncherPopen(t) ==
    /\ launchers[t] = "started"
    /\ process' = t
    /\ launchers' = [launchers EXCEPT ![t] = "waiting"]
    /\ UNCHANGED << output_queue, start_replies, fetchVars, matchVars, buildVars,
                    confirmVars, filterVars, normVars >>

\* run_orchestrator: Popen raises; output_queue.put(f"Error: {str(e)}")
LauncherFails(t) ==
    /\ launchers[t] = "started"
    /\ launchers' = [launchers EXCEPT ![t] = "failed"]
    /\ output_queue' = Append(output_queue, "Error")
    /\ UNCHANGED << process, start_replies, fetchVars, matchVars, buildVars, confirmVars,
                    filterVars, normVars >>

\* the subprocess exits and process.wait() returns; process keeps the Popen
\* object
SubprocessExits(t) ==
    /\ launchers[t] = "waiting"
    /\ launchers' = [launchers EXCEPT ![t] = "done"]
    /\ UNCHANGED << process, output_queue, start_replies, fetchVars, matchVars, buildVars,
                    confirmVars, filterVars, normVars >>

\* GET /api/poll: takes all messages off the queue (lines 218-226)
HandlePoll ==
    /\ output_queue # << >>
    /\ output_queue' = << >>
    /\ UNCHANGED << process, launchers, start_replies, fetchVars, matchVars, buildVars,
                    confirmVars, filterVars, normVars >>

(***************************************************************************)
(* Specification: up to MaxStarts /api/start requests in any interleaving  *)
(* with the threads they start                                             *)
(***************************************************************************)
ChatInit ==
    /\ process = NoProcess
    /\ launchers = << >>
    /\ output_queue = << >>
    /\ start_replies = << >>
    /\ FetchIdle
    /\ MatchIdle
    /\ BuildIdle
    /\ ConfirmIdle
    /\ FilterIdle
    /\ NormIdle

ChatNext ==
    \/ StartRefused
    \/ StartAccepted
    \/ \E t \in DOMAIN launchers : LauncherPopen(t)
    \/ \E t \in DOMAIN launchers : LauncherFails(t)
    \/ \E t \in DOMAIN launchers : SubprocessExits(t)
    \/ HandlePoll

ChatSpec == ChatInit /\ [][ChatNext]_vars

(***************************************************************************)
(* Vocabulary of the properties                                            *)
(***************************************************************************)
Range(seq) == { seq[i] : i \in DOMAIN seq }
Last(seq) == seq[Len(seq)]
CeilDiv(a, b) == (a + b - 1) \div b

\* the kinds of entry of an attempt log
IsRateLimited(e) == e.status = 429
IsServerError(e) == e.status # 429 /\ e.status >= 500
IsOtherException(e) ==
    \/ e.status = NoResponse
    \/ e.status # 429 /\ e.status < 500 /\ RaisesForStatus(e.status)
IsSuccess(e) == ~IsRateLimited(e) /\ ~IsServerError(e) /\ ~IsOtherException(e)

NumRateLimited(log) == Cardinality({ i \in DOMAIN log : IsRateLimited(log[i]) })
NumServerError(log) == Cardinality({ i \in DOMAIN log : IsServerError(log[i]) })
NumOtherException(log) == Cardinality({ i \in DOMAIN log : IsOtherException(log[i]) })
NumFailed(log) == Cardinality({ i \in DOMAIN log : ~IsSuccess(log[i]) })
NumThrottled(log) == NumRateLimited(log) + NumServerError(log)

SearchOver == pc \in {"collected", "details", "got_details", "done"}
Uncapped == max_pages = NoCap /\ max_records = NoCap

(***************************************************************************)
(* C1: the retry loop of a search page ends after a bounded number of      *)
(* requests, whatever the outcomes: by the time ReqCap requests (more than *)
(* the budget of 3) have been issued for one page, the loop is over, with  *)
(* a successful response or with FetchError.                               *)
(***************************************************************************)
C1_PageLoopBounded == pc = "search" => Len(page_log) < ReqCap

(***************************************************************************)
(* C2: every page has its own budget of 3: a page starts with retries = 0  *)
(* and retries counts the throttled / server-error failures of this page   *)
(* only; the fetch is not abandoned before a page failed 3 times; once 3   *)
(* throttled / server-error failures of the page are reached FetchError is *)
(* raised and the 3rd such failure is the last request of the page.        *)
(***************************************************************************)
C2_PerPageBudget ==
    /\ (pc = "search" /\ page_log = << >>) => retries = 0
    /\ pc \in {"search", "got_page", "failed"} => retries = NumThrottled(page_log)
    /\ pc = "failed" => NumFailed(page_log) >= 3
    /\ NumThrottled(page_log) >= 3 =>
          /\ pc = "failed"
          /\ NumThrottled(page_log) = 3
          /\ ~IsSuccess(Last(page_log)) /\ ~IsOtherException(Last(page_log))

\* page 2 exhausted its budget after page 1 had delivered ids
C2_Witness ==
    /\ pc = "failed" /\ page = 2 /\ all_listing_ids # << >>
    /\ NumThrottled(page_log) = 3 /\ NumOtherException(page_log) = 1

(***************************************************************************)
(* C3: when a page exhausts its budget the fetch raises FetchError and     *)
(* yields nothing: no listing is returned and no detail request was or     *)
(* will be issued; detail requests exist only in runs whose page loop      *)
(* ended, and the page loop ends only on a successful page request.        *)
(***************************************************************************)
C3_AbortYieldsNothing ==
    /\ NumThrottled(page_log) >= RetryBudget => pc = "failed"
    /\ pc = "failed" => complete_listings = << >> /\ detail_requested = {}
    /\ detail_requested # {} => pc \in {"details", "got_details", "done"}
    /\ pc = "collected" => page_log # << >> /\ IsSuccess(Last(page_log))

\* FetchError on page 2 with the ids of page 1 collected
C3_Witness ==
    /\ pc = "failed" /\ page = 2 /\ Len(all_listing_ids) = 2
    /\ complete_listings = << >>

(***************************************************************************)
(* C4: every exception other than a 429 / 5xx response on a search page is *)
(* followed by a 2-second wait and counts against the budget of the page,  *)
(* so that 3 of them on one page end in FetchError.                        *)
(***************************************************************************)
C4_OtherExceptionWaitsAndCounts ==
    /\ \A i \in DOMAIN page_log : IsOtherException(page_log[i]) => page_log[i].wait = 2
    /\ NumOtherException(page_log) >= 3 => pc = "failed"

(***************************************************************************)
(* C5: every 429 on a search page is followed by exactly one 60-second     *)
(* wait and is counted in retries; a page that succeeds after k 429s has   *)
(* k < 3, exactly k waits of 60 seconds in its log, and the response the   *)
(* pagination reads is the one of the last, successful request.            *)
(***************************************************************************)
C5_RateLimitBackoff ==
    /\ \A i \in DOMAIN page_log : IsRateLimited(page_log[i]) => page_log[i].wait = 60
    /\ Cardinality({ i \in DOMAIN page_log : page_log[i].wait = 60 }) = NumRateLimited(page_log)
    /\ pc \in {"search", "got_page", "failed"} =>
          retries = NumRateLimited(page_log) + NumServerError(page_log)
    /\ pc = "got_page" =>
          /\ NumRateLimited(page_log) < 3
          /\ IsSuccess(Last(page_log))
          /\ response.status_code = Last(page_log).status
          /\ response.body \in ServedBodies(page)

\* page 1 answered 429, 429, 200
C5_Witness ==
    /\ pc = "got_page" /\ page = 1
    /\ Len(page_log) = 3 /\ NumRateLimited(page_log) = 2
    /\ page_log[1].wait = 60 /\ page_log[2].wait = 60
    /\ response.body.List # << >>

(***************************************************************************)
(* C6: the wait after a 5xx on a search page is 5 x n seconds, n being the *)
(* number of failed attempts of the page so far (the 5xx included).        *)
(***************************************************************************)
C6_LinearBackoff ==
    \A i \in DOMAIN page_log : IsServerError(page_log[i]) => page_log[i].wait = 5 * i

(***************************************************************************)
(* C7: after a successful page the pagination stops exactly when the page  *)
(* had no item, or the page number reached max_pages, or the collected ids *)
(* reached max_records, or the cumulative number of items fetched reached  *)
(* the reported TotalCount; otherwise it goes on with page + 1.  Page      *)
(* numbers only grow, by one, and only after the page succeeded.           *)
(***************************************************************************)
C7_ClaimedStop ==
    \/ Len(response.body.List) = 0
    \/ max_pages # NoCap /\ page >= max_pages
    \/ max_records # NoCap /\ Len(all_listing_ids') >= max_records
    \/ items_fetched' >= response.body.TotalCount

C7_PaginationRule ==
    [][ /\ pc = "got_page" =>
              IF C7_ClaimedStop THEN pc' = "collected" /\ page' = page
                                ELSE pc' = "search" /\ page' = page + 1
        /\ page' # page => pc = "got_page" /\ page' = page + 1 ]_vars

(***************************************************************************)
(* C8: with max_pages set, no page beyond max_pages is ever requested     *)
(* (requests are issued for `page`) and the page loop is never left to go  *)
(* on after max_pages successful pages (in the retry loop, page - 1 pages  *)
(* have succeeded), whatever the server reports.                           *)
(***************************************************************************)
C8_MaxPagesCap ==
    max_pages # NoCap =>
        /\ page <= max_pages
        /\ pc = "search" => page - 1 < max_pages

\* the loop stopped at max_pages = 2 although the server reports more than it
\* has delivered and the last page was not empty
C8_Witness ==
    /\ max_pages = 2 /\ pc = "collected" /\ page = 2
    /\ response.body.List # << >>
    /\ response.body.TotalCount > Fetched(page, response.body.PageSize)
    /\ response.body.TotalCount > items_fetched


(***************************************************************************)
(* C9: with max_records set, the page loop goes on only while fewer than   *)
(* max_records ids are collected; leaving the loop keeps exactly the first *)
(* max_records collected ids, in page order; detail requests are issued    *)
(* only for the kept ids and at most max_records listings are returned.    *)
(***************************************************************************)
C9_Capped ==
    max_records # NoCap =>
        /\ pc \in {"search", "got_page", "failed"} => Len(all_listing_ids) < max_records
        /\ pc \in {"details", "got_details", "done"} =>
              /\ Len(all_listing_ids) <= max_records
              /\ detail_requested \subseteq Range(all_listing_ids)
              /\ Len(complete_listings) <= max_records
              /\ \A d \in Range(complete_listings) : d.ListingId \in Range(all_listing_ids)

C9_KeepsFirst ==
    (pc = "collected" /\ max_records # NoCap) =>
        all_listing_ids' = SubSeq(all_listing_ids, 1, Min(Len(all_listing_ids), max_records))

C9_MaxRecordsCap == [](C9_Capped) /\ [][C9_KeepsFirst]_vars

\* 2 ids were cut down to max_records = 1, and that listing was returned
C9_Witness ==
    /\ pc = "done" /\ max_records = 1 /\ server.honest
    /\ items_fetched = 2
    /\ all_listing_ids = << 1 >>
    /\ Len(complete_listings) = 1 /\ complete_listings[1].ListingId = 1

(***************************************************************************)
(* C10: against an honest, reliable server holding T listings in pages of  *)
(* P (reported as PageSize on every page) and without caps, the fetch      *)
(* requests every page once, ends with page = the number of pages, and     *)
(* returns the T listings in order.                                        *)
(***************************************************************************)
C10_Premise == server.honest /\ server.reliable /\ Uncapped

C10_AllReturned ==
    /\ items_fetched = server.total
    /\ all_listing_ids = [i \in 1 .. server.total |-> i]
    /\ complete_listings = [i \in 1 .. server.total |-> Details(i, "object")]

C11_Handled == SubSeq(all_listing_ids, 1, detail_idx - 1)

C11_Expected ==
    LET kept == SelectSeq(C11_Handled, LAMBDA id : id \notin detail_failed)
    IN  [i \in 1 .. Len(kept) |-> Details(kept[i], "object")]

C11_Result ==
    pc \in {"details", "got_details", "done"} =>
        /\ complete_listings = C11_Expected
        /\ pc = "done" => C11_Handled = all_listing_ids
        /\ Len(detail_log) <= 4
        /\ (pc = "got_details" /\ ~IsSuccess(Last(detail_log))) =>
              details = NoDetails /\ CurrentId \in detail_failed
        /\ detail_failed \subseteq detail_requested

C11_GoesOn ==
    /\ SearchOver => pc' \in {"details", "got_details", "done"}
    /\ pc = "got_details" => detail_idx' = detail_idx + 1

C11_DetailFailureNotFatal == [](C11_Result) /\ [][C11_GoesOn]_vars

\* the second of three listings failed; the first and the third were returned
C11_Witness ==
    /\ pc = "done" /\ all_listing_ids = << 1, 2, 3 >>
    /\ detail_failed = {2}
    /\ complete_listings = << Details(1, "object"), Details(3, "object") >>

(***************************************************************************)
(* C12: a detail fetch follows the retry policy of a search-page fetch:    *)
(* after the same outcomes it sleeps what the page loop sleeps (the page   *)
(* loop's retries being the number of its counted failures so far) and it  *)
(* has given up once the budget of 3 is used, as the page loop has.        *)
(***************************************************************************)
C12_SamePolicy ==
    /\ \A i \in DOMAIN detail_log :
          ~IsSuccess(detail_log[i]) =>
              detail_log[i].wait =
                  PageWait(detail_log[i].status,
                           NumThrottled(SubSeq(detail_log, 1, i - 1)))
    /\ BudgetExhausted(NumThrottled(detail_log)) =>
          pc = "got_details" /\ details = NoDetails

(***************************************************************************)
(* Vocabulary of the properties of the confirmation loop                   *)
(***************************************************************************)
\* how a call of confirm_location_mapping ended
IsApproval(call) == ~call.raised /\ call.verdict.approved
IsCorrection(call) ==
    ~call.raised /\ ~call.verdict.approved /\ call.verdict.correction # NoCorrections
IsNoCorrections(call) ==
    ~call.raised /\ ~call.verdict.approved /\ call.verdict.correction = NoCorrections

\* this step is a call of confirm_location_mapping that ended as Kind
CallStep(Kind(_)) == Len(conf_log') = Len(conf_log) + 1 /\ Kind(Last(conf_log'))

LoopOver == o_pc \in {"fetch", "done"}

(***************************************************************************)
(* C13: confirm_location_mapping is called at most args.retries times;     *)
(* when no call ended in an approval or in a verdict without corrections   *)
(* the loop is over after exactly args.retries calls; however the loop     *)
(* ends, the run goes on to the fetch, and fetch_raw_properties gets the   *)
(* params of the last build.                                               *)
(***************************************************************************)
C13_Bounded ==
    /\ Len(conf_log) <= Max(0, retries_arg)
    /\ builds <= 1 + Len(conf_log)
    /\ (LoopOver /\ \A i \in DOMAIN conf_log :
                       ~IsApproval(conf_log[i]) /\ ~IsNoCorrections(conf_log[i])) =>
           Len(conf_log) = retries_arg
    /\ params = build_search_query(form, regions).params
    /\ fetch_call.called <=> o_pc = "done"
    /\ fetch_call.called => fetch_call.params = params

C13_NoAbort ==
    /\ o_pc = "confirm" => o_pc' \in {"confirm", "fetch"}
    /\ o_pc = "fetch" => o_pc' = "done"

C14_CorrectionStep ==
    CallStep(IsCorrection) =>
        LET corrections == Last(conf_log').verdict.correction
        IN  /\ \A level \in Levels :
                  form'[level] = IF level \in DOMAIN corrections THEN corrections[level]
                                                                ELSE form[level]
            /\ params' = build_search_query(form', regions).params
            /\ match_hints' = build_search_query(form', regions).match_hints
            /\ \A level \in DOMAIN corrections :
                  match_hints'[level].input = corrections[level]
            /\ builds' = builds + 1
            /\ Last(conf_log').hints = match_hints
            /\ IF attempt < retries_arg
                  THEN attempt' = attempt + 1 /\ o_pc' = "confirm"
                  ELSE o_pc' = "fetch"

C14_NextConfirmsNew ==
    \A i \in DOMAIN conf_log :
        (i > 1 /\ IsCorrection(conf_log[i - 1])) =>
            \A level \in DOMAIN conf_log[i - 1].verdict.correction :
                conf_log[i].hints[level].input = conf_log[i - 1].verdict.correction[level]

C15_LastCall ==
    \A i \in DOMAIN conf_log :
        IsNoCorrections(conf_log[i]) => i = Len(conf_log) /\ LoopOver

C15_Step ==
    /\ CallStep(IsNoCorrections) =>
          /\ o_pc' = "fetch"
          /\ UNCHANGED << form, params, match_hints, builds >>
    /\ (o_pc = "fetch" /\ conf_log # << >> /\ IsNoCorrections(Last(conf_log))) =>
          /\ fetch_call'.called /\ fetch_call'.params = params
          /\ UNCHANGED << conf_log, builds >>

C15_NoCorrectionsEndsLoop == [](C15_LastCall) /\ [][C15_Step]_vars

\* the first of three possible attempts ended the loop
C15_Witness ==
    /\ o_pc = "done" /\ retries_arg = 2 /\ Len(conf_log) = 1
    /\ IsNoCorrections(conf_log[1])
    /\ builds = 1 /\ fetch_call.called

(***************************************************************************)
(* C16: the request of every confirmation call holds the hints it is to    *)
(* confirm (the input and the candidate of region, district and suburb),   *)
(* and calls for hints that differ in these send different requests.       *)
(***************************************************************************)
C16_RequestHoldsHints ==
    /\ \A i \in DOMAIN conf_log :
          \E k \in DOMAIN conf_log[i].request.system :
              conf_log[i].request.system[k].lines = DescLines(conf_log[i].hints)
    /\ \A i, j \in DOMAIN conf_log :
          DescLines(conf_log[i].hints) # DescLines(conf_log[j].hints) =>
              conf_log[i].request # conf_log[j].request

(***************************************************************************)
(* C17: an approval ends the loop: it is the last call, nothing is rebuilt *)
(* after it, and the params fetch_raw_properties gets are the params that  *)
(* were built together with the approved hints.                            *)
(***************************************************************************)
C17_LastCall ==
    \A i \in DOMAIN conf_log :
        IsApproval(conf_log[i]) =>
            /\ i = Len(conf_log) /\ LoopOver
            /\ conf_log[i].hints = match_hints
            /\ match_hints = build_search_query(form, regions).match_hints
            /\ params = build_search_query(form, regions).params
            /\ fetch_call.called => fetch_call.params = params

C17_Step ==
    /\ CallStep(IsApproval) =>
          /\ o_pc' = "fetch"
          /\ UNCHANGED << form, params, match_hints, builds >>
    /\ (o_pc = "fetch" /\ conf_log # << >> /\ IsApproval(Last(conf_log))) =>
          /\ fetch_call'.called /\ fetch_call'.params = params
          /\ UNCHANGED << conf_log, builds, form, params, match_hints >>

C17_ApprovalEndsLoop == [](C17_LastCall) /\ [][C17_Step]_vars

\* approved on the second attempt, after a correction on the first
C17_Witness ==
    /\ o_pc = "done" /\ retries_arg = 2 /\ Len(conf_log) = 2
    /\ IsCorrection(conf_log[1]) /\ IsApproval(conf_log[2])
    /\ builds = 2
    /\ fetch_call.params = params /\ params # NoParams
    /\ conf_log[1].hints # conf_log[2].hints

(***************************************************************************)
(* C18: fuzzy_match_item resolves in strict tier order, whatever the order *)
(* of the candidates: if a name equals the text (lowered and trimmed) the  *)
(* item returned is such a candidate; otherwise, if a name contains the    *)
(* text or is contained in it, the item returned is such a candidate;      *)
(* otherwise, if a name has a similarity of at least 0.6 to the text, the  *)
(* item returned is one of the highest similarity; and None is returned    *)
(* exactly when no candidate matches in any tier.                          *)
(***************************************************************************)
C18_Text == Strip(Lower(fm_name))
C18_Exact == { i \in DOMAIN fm_items : Lower(fm_items[i]) = C18_Text }
C18_Substring ==
    { i \in DOMAIN fm_items :
        Contains(C18_Text, Lower(fm_items[i])) \/ Contains(Lower(fm_items[i]), C18_Text) }
\* similarity >= 0.6, the similarity being 2 * matches / (sum of the lengths)
C18_Similar ==
    { i \in DOMAIN fm_items :
        10 * Matches(fm_items[i], C18_Text) >= 3 * (Len(fm_items[i]) + Len(C18_Text)) }
\* similarity of candidate i <= similarity of candidate k
C18_NotBetter(i, k) ==
    Matches(fm_items[i], C18_Text) * (Len(fm_items[k]) + Len(C18_Text))
        <= Matches(fm_items[k], C18_Text) * (Len(fm_items[i]) + Len(C18_Text))

C18_TierOrder ==
    fm_pc = "returned" =>
        /\ C18_Exact # {} => fm_result \in C18_Exact
        /\ (C18_Exact = {} /\ C18_Substring # {}) => fm_result \in C18_Substring
        /\ (C18_Exact = {} /\ C18_Substring = {} /\ C18_Similar # {}) =>
              /\ fm_result \in C18_Similar
              /\ \A i \in C18_Similar : C18_NotBetter(i, fm_result)
        /\ fm_result = NoItem <=>
              (C18_Exact = {} /\ C18_Substring = {} /\ C18_Similar = {})

\* the exact match comes second in the list, after a substring match
C18_Witness ==
    /\ fm_pc = "returned"
    /\ fm_name = << " ", "A", "b", " " >>
    /\ fm_items = << << "A", "b", "b" >>, << "A", "b" >> >>
    /\ fm_result = 2

\* an approximate match is returned: the second candidate, the first being
\* no match
C18_WitnessApproximate ==
    /\ fm_pc = "returned"
    /\ C18_Exact = {} /\ C18_Substring = {} /\ C18_Similar = {2}
    /\ fm_result = 2

(***************************************************************************)
(* C19: whenever the build resolves a suburb, the district id and the      *)
(* region id of its match_hints are the ids of the district and the region *)
(* that hold this suburb in the taxonomy.                                  *)
(***************************************************************************)
\* the districts (as paths) that hold a suburb with the id sid
C19_Owners(sid) ==
    { path \in DistrictPaths(regions) :
        \E s \in DOMAIN DistrictAt(regions, path).Suburbs :
            DistrictAt(regions, path).Suburbs[s].SuburbId = sid }

C19_TrueAncestors ==
    (b_pc = "returned" /\ match_hints.suburb.id # NoId) =>
        /\ C19_Owners(match_hints.suburb.id) # {}
        /\ \A path \in C19_Owners(match_hints.suburb.id) :
              /\ match_hints.district.id = DistrictAt(regions, path).DistrictId
              /\ match_hints.district.candidate = DistrictAt(regions, path).Name
              /\ match_hints.region.id = RegionAt(regions, path).LocalityId
              /\ match_hints.region.candidate = RegionAt(regions, path).Name

\* the district input names the district of region 1, which has no such suburb;
\* the suburb is found in the district of region 2
C19_Witness ==
    /\ b_pc = "returned"
    /\ Len(regions) = 2
    /\ form.district = << "a", "b" >> /\ regions[1].Districts[1].Name = << "A", "b" >>
    /\ form.suburb = << "a", "b", "b" >>
    /\ match_hints.suburb.id = SuburbIdOf(2, 1)
    /\ match_hints.district.id = DistrictIdOf(2)
    /\ match_hints.region.id = LocalityIdOf(2)

(***************************************************************************)
(* C20: a named district is resolved as fuzzy_match_item resolves it over  *)
(* the districts of all regions taken together, and the region hint is the *)
(* region that owns the resolved district (stated for forms without a      *)
(* suburb, where nothing else sets the district).                          *)
(***************************************************************************)
\* the paths of all districts in taxonomy order
C20_AllDistricts ==
    LET paths == DistrictPaths(regions)
    IN  [k \in 1 .. Cardinality(paths) |->
            CHOOSE path \in paths :
                Cardinality({ q \in paths : PathBefore(q, path) }) = k - 1]

C20_DistrictOverAllRegions ==
    (b_pc = "returned" /\ Given(form.district) /\ ~Given(form.suburb)) =>
        LET all == C20_AllDistricts
            k   == fuzzy_match_item(form.district,
                                    [i \in DOMAIN all |-> DistrictAt(regions, all[i]).Name])
        IN  IF k = NoItem
                THEN match_hints.district.id = NoId
                ELSE /\ match_hints.district.id = DistrictAt(regions, all[k]).DistrictId
                     /\ match_hints.region.id = RegionAt(regions, all[k]).LocalityId

(***************************************************************************)
(* C21: the params of a build hold the parameter key of a numeric range    *)
(* exactly when the form holds its form key with a value that is not null, *)
(* and then with that value (0 included); no other numeric key is there.   *)
(***************************************************************************)
C21_Pairs ==
    { << "min_price", "price_min" >>, << "max_price", "price_max" >>,
      << "min_bedrooms", "bedrooms_min" >>, << "max_bedrooms", "bedrooms_max" >>,
      << "min_bathrooms", "bathrooms_min" >>, << "max_bathrooms", "bathrooms_max" >>,
      << "min_carparks", "car_spaces_min" >>, << "max_carparks", "car_spaces_max" >> }

C21_NumericRanges ==
    b_pc \in {"returned", "again"} =>
        \A pair \in C21_Pairs :
            LET present == pair[1] \in DOMAIN form.numeric /\ form.numeric[pair[1]] # PyNone
            IN  /\ pair[2] \in DOMAIN params <=> present
                /\ present => params[pair[2]] = form.numeric[pair[1]]

\* min_price is 0: price_min is 0, and no other numeric key is in the params
C21_Witness ==
    /\ b_pc = "returned"
    /\ form.numeric = ("min_price" :> PyInt(0))
    /\ params["price_min"] = PyInt(0)
    /\ \A pair \in C21_Pairs : pair[2] \in DOMAIN params => pair[2] = "price_min"

(***************************************************************************)
(* C22: when every value of property_types and sales_methods equals a      *)
(* vocabulary key, exactly or but for case, the build returns and each     *)
(* parameter joins one such key per value in input order; otherwise the    *)
(* build raises and returns neither params nor hints.                      *)
(***************************************************************************)
C22_Values(value) ==
    IF value = PyNone THEN << >> ELSE IF value.py = "list" THEN value.v ELSE << value.v >>

C22_Matches(v, keys) == { keys[k] : k \in { k \in DOMAIN keys : Lower(keys[k]) = Lower(v) } }

C22_Listed(value, keys, param_key) ==
    LET vals == C22_Values(value)
    IN  IF vals = << >>
            THEN param_key \notin DOMAIN params
            ELSE /\ param_key \in DOMAIN params
                 /\ \E selected \in [DOMAIN vals -> { keys[k] : k \in DOMAIN keys }] :
                       /\ \A i \in DOMAIN vals : selected[i] \in C22_Matches(vals[i], keys)
                       /\ \A i \in DOMAIN vals :
                             vals[i] \in { keys[k] : k \in DOMAIN keys } => selected[i] = vals[i]
                       /\ params[param_key] = Join(selected)

C22_AllMatch(value, keys) ==
    \A i \in DOMAIN C22_Values(value) : C22_Matches(C22_Values(value)[i], keys) # {}

C22_NoSilentDrop ==
    b_pc \in {"returned", "raised", "again"} =>
        IF C22_AllMatch(form.property_types, valid_types)
           /\ C22_AllMatch(form.sales_methods, valid_methods)
            THEN /\ ~b_raised
                 /\ C22_Listed(form.property_types, valid_types, "property_type")
                 /\ C22_Listed(form.sales_methods, valid_methods, "sales_method")
            ELSE b_raised /\ params = << >> /\ match_hints = << >>

\* two values that match but for case: the keys, joined in input order
C22_Witness ==
    /\ b_pc = "returned"
    /\ form.property_types = PyList(<< << "b" >>, << "a", "b" >> >>)
    /\ valid_types = << << "A", "b" >>, << "B" >> >>
    /\ params["property_type"] = << "B", ",", "A", "b" >>

\* a value without a key: ValueError
C22_WitnessRaised ==
    /\ b_pc = "raised" /\ b_raised
    /\ form.property_types = PyList(<< << "a", "b" >>, << "a" >> >>)
    /\ valid_types = << << "A", "b" >>, << "B" >> >>

(***************************************************************************)
(* C23: a second build on the same form, taxonomy and vocabularies returns *)
(* the params and the hints of the first, and no build changes the form,   *)
(* the taxonomy or the vocabularies.                                       *)
(***************************************************************************)
C23_SameResult ==
    b_pc = "again" =>
        b_again = [raised |-> FALSE, params |-> params, match_hints |-> match_hints]

C23_ReadOnly == UNCHANGED << form, regions, valid_types, valid_methods >>

C26_JsonType(v) ==
    IF v = PyNone THEN "null"
    ELSE IF v.py = "bool" THEN "boolean"
    ELSE IF v.py = "int" THEN "integer"
    ELSE IF v.py = "float" THEN "number"
    ELSE IF v.py = "str" THEN "string"
    ELSE IF v.py = "list" THEN "array"
    ELSE "object"

C26_Allowed(v, types) ==
    \E i \in DOMAIN types :
        \/ types[i] = C26_JsonType(v)
        \/ types[i] = "number" /\ C26_JsonType(v) = "integer"

C26_Zero(types) ==
    LET listed == { types[i] : i \in DOMAIN types }
    IN  IF "array" \in listed THEN PyList(<< >>)
        ELSE IF "object" \in listed THEN PyDict(EmptyDict)
        ELSE IF "string" \in listed THEN PyStr(<< >>)
        ELSE IF listed \cap {"integer", "number"} # {} THEN PyInt(0)
        ELSE IF "boolean" \in listed THEN PyBool(FALSE)
        ELSE PyNone

C26_DefaultFilling ==
    d_pc = "validate" =>
        \A key \in DOMAIN schema.properties :
            LET types == Types(schema.properties[key])
            IN  IF key \in DOMAIN d_produced
                    THEN /\ key \in DOMAIN d_record
                         /\ d_record[key] = IF C26_Allowed(d_produced[key], types)
                                                THEN d_produced[key]
                                                ELSE C26_Zero(types)
                    ELSE \/ key \in DOMAIN d_record /\ d_record[key] = C26_Zero(types)
                         \/ key \notin DOMAIN d_record /\ C26_Allowed(PyNone, types)

(***************************************************************************)
(* C27: after default-filling no schema property with a declared type is   *)
(* missing from the record, so validation reports no missing required      *)
(* property with a declared type.                                          *)
(***************************************************************************)
C27_NeverMissing ==
    /\ d_pc \in {"validate", "done"} =>
          \A key \in DOMAIN schema.properties :
              schema.properties[key].type # PyNone => key \in DOMAIN d_record
    /\ d_pc = "done" =>
          \A e \in d_errors :
              e.error = "required" => schema.properties[e.key].type = PyNone


(***************************************************************************)
(* C24: normalizing one record makes at most retry_limit calls to the      *)
(* capability, and every unsuccessful attempt of any kind consumes exactly *)
(* one of them: a record fails after exactly retry_limit calls, so with a  *)
(* limit of 2 and two invalid-JSON replies there is no third call.         *)
(***************************************************************************)
C24_Budget ==
    /\ n_calls <= retry_limit
    /\ n_pc = "call" => n_calls = n_attempt - 1 /\ n_attempt <= retry_limit
    /\ n_pc = "raised" => n_calls = retry_limit

C24_ConsumesOne ==
    (n_pc = "call" /\ cleaned' = cleaned) =>
        /\ n_calls' = n_calls + 1
        /\ n_last'.attempt = n_attempt
        /\ n_last'.kind \in { "no_call", "bad_json", "not_object", "object" }
        /\ n_pc' \in { "call", "raised" }
        /\ n_pc' = "call" => n_attempt' = n_attempt + 1
        /\ n_pc' = "raised" => n_attempt = retry_limit

C24_AttemptBudget == [](C24_Budget) /\ [][C24_ConsumesOne]_vars

\* two invalid-JSON replies under a limit of 2 have failed the record
C24_Witness ==
    /\ n_pc = "raised"
    /\ retry_limit = 2
    /\ n_calls = 2
    /\ Len(messages) = 5
    /\ messages[4] = Instruction("bad_json")
    /\ messages[5] = Instruction("bad_json")

(***************************************************************************)
(* C25: whenever a record exhausts its attempt budget, the error raised    *)
(* for it names the last validation message produced for that record,      *)
(* whatever kind of failure used up the final attempt.                     *)
(***************************************************************************)
C25_NamesLastMessage ==
    (n_pc = "raised" /\ n_messages # << >>) =>
        n_error.message = n_messages[Len(n_messages)]

(***************************************************************************)
(* C28: normalize never returns a record that did not pass validation      *)
(* against the full schema after default-filling: every record it collects *)
(* is the default-filled, valid object of the reply to a request for the   *)
(* raw record of the same position, and when it returns it has collected   *)
(* one record for every input record.                                      *)
(***************************************************************************)
C28_Collected ==
    /\ \A i \in 1 .. Len(cleaned) : ValidationErrors(cleaned[i], schema) = {}
    /\ n_pc \in { "call", "raised" } => Len(cleaned) = idx - 1
    /\ n_pc = "returned" => Len(cleaned) = Len(Records(raw_data))

C28_Collects ==
    cleaned' # cleaned =>
        /\ n_last'.reply.function_call
        /\ n_last'.reply.json
        /\ cleaned' = Append(cleaned,
                             apply_schema_defaults(Unwrap(n_last'.reply.value).v, schema))
        /\ n_last'.record = Len(cleaned')
        /\ n_last'.request[3] =
               Message("system", "raw_record", [json |-> Records(raw_data)[Len(cleaned')]])

C28_OnlyValidRecords == [](C28_Collected) /\ [][C28_Collects]_vars

\* two records returned, the second after a rejected first reply
C28_Witness ==
    /\ n_pc = "returned"
    /\ Len(cleaned) = 2
    /\ n_last.attempt = 2
    /\ schema.properties["bedrooms"].minimum = PyInt(1)

(***************************************************************************)
(* C29: normalize aborts the whole batch on the first unrecoverable        *)
(* record: the error leaves normalize, no record after the failed one is   *)
(* submitted to the capability, and the records normalized before it are   *)
(* not returned.                                                           *)
(***************************************************************************)
C29_Aborted ==
    /\ n_pc = "returned" => n_error = NoError
    /\ n_error # NoError => n_pc = "raised"
    /\ n_pc = "raised" => n_error # NoError /\ (n_last # << >> => n_last.record = idx)

\* nothing happens after the error: no further call, no return
C29_Final == n_pc # "raised"

C29_AbortsBatch == [](C29_Aborted) /\ [][C29_Final]_vars

\* the second of several records fails after the first was normalized
C29_Witness ==
    /\ n_pc = "raised"
    /\ Len(cleaned) = 1
    /\ idx = 1 + Len(cleaned)
    /\ idx < Len(Records(raw_data))

(***************************************************************************)
(* C30: a run executes build, confirm, fetch, normalize in this order, and *)
(* every run whose fetch succeeds normalizes the fetched listings into the *)
(* clean record set before anything downstream consumes them: when         *)
(* match_properties is called, normalize has returned.                     *)
(***************************************************************************)
C30_NormalizedBeforeConsumed ==
    o_pc = "matched" => fetch_call.called /\ n_pc = "returned"

(***************************************************************************)
(* C31: a named suburb is resolved first within the suburbs of the         *)
(* district resolved from the district input; only if that gives nothing   *)
(* it is searched in all districts in taxonomy order, and a match found    *)
(* there sets the district and the region to its owners, replacing the     *)
(* district resolved from the district input.                              *)
(***************************************************************************)
\* the suburb lists (by district path) in which the suburb input matches
C31_Hits ==
    { path \in DistrictPaths(regions) :
        fuzzy_match_item(form.suburb, NamesOf(DistrictAt(regions, path).Suburbs)) # NoItem }

C31_SuburbOf(path) ==
    DistrictAt(regions, path).Suburbs[
        fuzzy_match_item(form.suburb, NamesOf(DistrictAt(regions, path).Suburbs))]

C31_DistrictFirstThenGlobal ==
    (b_pc = "returned" /\ Given(form.suburb)) =>
        LET d == MatchDistrict(form, regions, NoObjs).district_obj
        IN  IF d # NoObj /\ d \in C31_Hits
                THEN /\ match_hints.suburb.id = C31_SuburbOf(d).SuburbId
                     /\ match_hints.district.id = DistrictAt(regions, d).DistrictId
            ELSE IF C31_Hits # {}
                THEN /\ match_hints.suburb.id = C31_SuburbOf(FirstPath(C31_Hits)).SuburbId
                     /\ match_hints.district.id
                            = DistrictAt(regions, FirstPath(C31_Hits)).DistrictId
                     /\ match_hints.region.id
                            = RegionAt(regions, FirstPath(C31_Hits)).LocalityId
            ELSE /\ match_hints.suburb.id = NoId
                 /\ match_hints.district.id
                        = IF d = NoObj THEN NoId ELSE DistrictAt(regions, d).DistrictId

\* the district input resolves to a district that has no such suburb; the
\* suburb is found elsewhere and the district hint is its owner
C31_Witness ==
    /\ b_pc = "returned"
    /\ Given(form.suburb)
    /\ MatchDistrict(form, regions, NoObjs).district_obj # NoObj
    /\ MatchDistrict(form, regions, NoObjs).district_obj \notin C31_Hits
    /\ match_hints.suburb.id # NoId
    /\ match_hints.district.id
           # DistrictAt(regions, MatchDistrict(form, regions, NoObjs).district_obj).DistrictId

(***************************************************************************)
(* C32: the region input is resolved only when neither a district nor a    *)
(* suburb was resolved; when one was, the region hint is the region that   *)
(* owns the resolved district and the result is what it would be without   *)
(* the region input, even if that input names another region.              *)
(***************************************************************************)
\* the ids and candidates of a build's hints, without the inputs
C32_Resolved(hints) ==
    [level \in Levels |-> << hints[level].candidate, hints[level].id >>]

\* the regions holding a district with the id did
C32_OwnersOfDistrict(did) ==
    { r \in DOMAIN regions :
        \E d \in DOMAIN regions[r].Districts : regions[r].Districts[d].DistrictId = did }

C32_RegionOnlyAsLastResort ==
    b_pc = "returned" =>
        IF match_hints.district.id # NoId \/ match_hints.suburb.id # NoId
            THEN /\ match_hints.district.id # NoId
                 /\ \A r \in C32_OwnersOfDistrict(match_hints.district.id) :
                        /\ match_hints.region.id = regions[r].LocalityId
                        /\ match_hints.region.candidate = regions[r].Name
                 /\ C32_OwnersOfDistrict(match_hints.district.id) # {}
                 /\ LET without == build_params_from_form([form EXCEPT !.region = None],
                                                          regions)
                    IN  /\ params = without.params
                        /\ C32_Resolved(match_hints) = C32_Resolved(without.match_hints)
            ELSE LET r == fuzzy_match_item(form.region, NamesOf(regions))
                 IN  IF Given(form.region) /\ r # NoItem
                         THEN /\ match_hints.region.id = regions[r].LocalityId
                              /\ params = "region" :> regions[r].LocalityId
                         ELSE match_hints.region.id = NoId /\ params = NoParams

\* the region input names region 1, the district resolves in region 2
C32_Witness ==
    /\ b_pc = "returned"
    /\ Given(form.region)
    /\ fuzzy_match_item(form.region, NamesOf(regions)) = 1
    /\ match_hints.district.id # NoId
    /\ match_hints.region.id = LocalityIdOf(2)

(***************************************************************************)
(* C34: re-resolution is stable: a build on the candidate names of a       *)
(* build's match_hints gives the same resolved ids and the same location   *)
(* parameter as that build.                                                *)
(***************************************************************************)
\* the form whose inputs are the candidates of the hints
C34_CandidateForm(hints) ==
    [region |-> hints.region.candidate, district |-> hints.district.candidate,
     suburb |-> hints.suburb.candidate]

C34_Ids(hints) == [level \in Levels |-> hints[level].id]

C34_StableReResolution ==
    b_pc = "returned" =>
        LET again == build_params_from_form(C34_CandidateForm(match_hints), regions)
        IN  /\ C34_Ids(again.match_hints) = C34_Ids(match_hints)
            /\ again.params = params

(***************************************************************************)
(* C35: the params of a build hold at most one of the keys suburb,         *)
(* district and region: the key of the most specific level that resolved,  *)
(* with the id of that level's hint, while match_hints carries every       *)
(* resolved level (with a suburb its district and region, with a district  *)
(* its region).                                                            *)
(***************************************************************************)
\* the levels whose hint is resolved, and the most specific of them
C35_ResolvedLevels == { level \in Levels : match_hints[level].id # NoId }
C35_MostSpecific ==
    IF "suburb" \in C35_ResolvedLevels THEN "suburb"
    ELSE IF "district" \in C35_ResolvedLevels THEN "district"
    ELSE "region"

C35_MostSpecificLevelOnly ==
    b_pc = "returned" =>
        /\ DOMAIN params \subseteq Levels
        /\ Cardinality(DOMAIN params) <= 1
        /\ IF C35_ResolvedLevels = {}
              THEN params = NoParams
              ELSE params = C35_MostSpecific :> match_hints[C35_MostSpecific].id
        /\ "suburb" \in C35_ResolvedLevels => "district" \in C35_ResolvedLevels
        /\ "district" \in C35_ResolvedLevels => "region" \in C35_ResolvedLevels
        /\ \A level \in C35_ResolvedLevels : match_hints[level].candidate # None

\* all three levels resolved: the params hold the suburb only
C35_Witness ==
    /\ b_pc = "returned"
    /\ C35_ResolvedLevels = Levels
    /\ DOMAIN params = { "suburb" }
    /\ params["suburb"] = match_hints.suburb.id

(***************************************************************************)
(* C36: an unresolvable location is no error: when none of the region,     *)
(* district and suburb named by the form matches the taxonomy, the build   *)
(* returns params without a location key and hints whose candidates and    *)
(* ids are null, the confirmation loop runs as for any other hints, and    *)
(* unless a correction changes the form the fetch is called with these     *)
(* params.                                                                 *)
(***************************************************************************)
\* no list of the taxonomy has a match for the form's text of its level
C36_Unresolvable ==
    /\ NamesLocation(form)
    /\ Given(form.region) => fuzzy_match_item(form.region, NamesOf(regions)) = NoItem
    /\ Given(form.district) =>
           \A r \in DOMAIN regions :
               fuzzy_match_item(form.district, NamesOf(regions[r].Districts)) = NoItem
    /\ Given(form.suburb) =>
           \A path \in DistrictPaths(regions) :
               fuzzy_match_item(form.suburb,
                                NamesOf(DistrictAt(regions, path).Suburbs)) = NoItem

C36_NoLocation ==
    C36_Unresolvable =>
        /\ o_pc # "idle"
        /\ params = NoParams
        /\ \A level \in Levels :
               match_hints[level] = Hint(form[level], None, NoId)
        /\ o_pc = "done" => fetch_call.called /\ fetch_call.params = NoParams

C36_GoesOn ==
    C36_Unresolvable =>
        /\ o_pc = "confirm" => o_pc' \in { "confirm", "fetch" }
        /\ o_pc = "fetch" => o_pc' = "done" /\ fetch_call'.params = NoParams

C36_UnresolvedIsNoError == [](C36_NoLocation) /\ [][C36_GoesOn]_vars

\* after two confirmation calls the fetch was called without a location
C36_Witness ==
    /\ C36_Unresolvable
    /\ o_pc = "done"
    /\ Len(conf_log) = 2
    /\ fetch_call.called
    /\ fetch_call.params = NoParams

(***************************************************************************)
(* C37: a confirmation attempt whose call raises or whose reply is no      *)
(* verdict uses up exactly one attempt and changes nothing else: no        *)
(* rebuild, the form, params and match_hints stay, and the loop goes on to *)
(* the next attempt or, after the last one, to the fetch; the run is never *)
(* aborted.                                                                *)
(***************************************************************************)
\* the call just logged raised, or returned something that is no verdict
C37_NoVerdict(call) == call.raised \/ call.verdict \in NonObjects

C37_FailedAttemptStep ==
    (o_pc = "confirm" /\ conf_log' # conf_log /\ C37_NoVerdict(Last(conf_log'))) =>
        /\ Len(conf_log') = Len(conf_log) + 1
        /\ form' = form
        /\ params' = params
        /\ match_hints' = match_hints
        /\ builds' = builds
        /\ o_pc' = NextAttemptPc(attempt, retries_arg)
        /\ attempt' = NextAttempt(attempt, retries_arg)

C37_FailedAttemptOnlyCounts == [][C37_FailedAttemptStep]_vars

(***************************************************************************)
(* C40: at most one orchestrator subprocess is running at any time, and a  *)
(* start request that comes after an accepted one is answered 'Already     *)
(* running' and starts nothing, however the requests interleave with the   *)
(* thread that assigns SimpleChatHandler.process.                          *)
(***************************************************************************)
C40_Running == { t \in DOMAIN launchers : launchers[t] = "waiting" }

C40_AtMostOneSubprocess ==
    /\ Cardinality(C40_Running) <= 1
    /\ \A i, j \in DOMAIN start_replies :
           (i < j /\ start_replies[i] = Started) => start_replies[j] = AlreadyRunning

(***************************************************************************)
(* C38: default-filling changes only schema properties whose value is      *)
(* missing or of a type outside the property's list of allowed types:      *)
(* every value of a type on that list and every key the schema does not    *)
(* declare is left as the capability produced it, and no key is added but  *)
(* a schema property.                                                      *)
(***************************************************************************)
\* the JSON type of the value is on the property's list of allowed types
C38_TypeAllowed(value, subschema) == C26_Allowed(value, Types(subschema))

C33_Payload(value) ==
    IF value.py = "list"
        THEN IF Len(value.v) = 1 THEN value.v[1] ELSE value
        ELSE value

C33_ParsedStep ==
    (n_pc = "call" /\ n_last' # n_last /\ n_last'.reply.function_call /\ n_last'.reply.json) =>
        LET payload == C33_Payload(n_last'.reply.value)
        IN  IF payload.py # "dict"
                THEN /\ n_last'.kind = "not_object"
                     /\ ~n_last'.filled /\ ~n_last'.validated
                     /\ messages' = Append(messages, Instruction("not_object"))
                     /\ n_calls' = n_calls + 1
                     /\ cleaned' = cleaned /\ idx' = idx /\ n_messages' = n_messages
                     /\ IF n_attempt < retry_limit
                           THEN n_pc' = "call" /\ n_attempt' = n_attempt + 1
                           ELSE n_pc' = "raised" /\ n_error' = RetriesExceeded
                ELSE /\ n_last'.kind = "object"
                     /\ n_last'.filled /\ n_last'.validated
                     /\ LET record == apply_schema_defaults(payload.v, schema)
                        IN  IF ValidationErrors(record, schema) = {}
                                THEN cleaned' = Append(cleaned, record)
                                ELSE /\ cleaned' = cleaned
                                     /\ Len(n_messages') = Len(n_messages) + 1

C33_UnwrapThenObjectCheck == [][C33_ParsedStep]_vars

\* the second attempt for a record was answered with a one-element array of a
\* non-object, and the instruction was appended
C33_Witness ==
    /\ n_last # << >>
    /\ n_last.attempt = 2
    /\ n_last.reply = Arguments(PyList(<< PyInt(1) >>))
    /\ n_last.kind = "not_object"
    /\ n_pc = "raised"
    /\ messages[Len(messages)] = Instruction("not_object")

(***************************************************************************)
(* C39: corrective feedback does not leak between records.  The            *)
(* conversation of every record starts from the base messages plus that    *)
(* record's raw payload; the base messages and the schema of the           *)
(* normalizer are never modified; and a request made for a record holds,   *)
(* after those three messages, only the feedback of that record's own      *)
(* earlier attempts, one message per attempt.                              *)
(***************************************************************************)
\* the conversation is the one of record k after `fed` attempts were answered
\* with feedback
C39_ConversationOf(conversation, k, fed) ==
    /\ Len(conversation) = Len(BaseMessages) + 1 + fed
    /\ SubSeq(conversation, 1, Len(BaseMessages)) = BaseMessages
    /\ conversation[Len(BaseMessages) + 1] =
           Message("system", "raw_record", [json |-> Records(raw_data)[k]])
    /\ \A i \in Len(BaseMessages) + 2 .. Len(conversation) : conversation[i].role = "user"

C39_OwnConversation ==
    /\ base_messages = BaseMessages
    /\ n_last # << >> => C39_ConversationOf(n_last.request, n_last.record, n_last.attempt - 1)
    /\ n_pc = "call" => C39_ConversationOf(messages, idx, n_attempt - 1)

C39_Frame == schema' = schema /\ base_messages' = base_messages

C39_NoLeakBetweenRecords == [](C39_OwnConversation) /\ [][C39_Frame]_vars

\* record 1 was returned on its second attempt, after feedback, and the
\* conversation of record 2 is about to start
C39_Witness ==
    /\ n_pc = "call" /\ idx = 2 /\ n_attempt = 1
    /\ n_last # << >>
    /\ n_last.record = 1 /\ n_last.attempt = 2
    /\ Len(n_last.request) = Len(BaseMessages) + 2
    /\ Len(messages) = Len(BaseMessages) + 1
====
